---- MODULE Spec2Model ----
(***************************************************************************)
(* BAPB / BAPP document workflow: the document, line-item, approval,       *)
(* attachment and notification tables of the remote store, and the         *)
(* request handlers (create, update, delete, submit, approve, reject,      *)
(* request-revision, signature upload) stepping through their store calls. *)
(***************************************************************************)
EXTENDS Integers, Sequences, FiniteSets, TLC

\* ------------------------------------------------------------------ bounds

\* documents ever created (ids are never reused)
MaxDocs == 1
\* line items in one request body
MaxItems == 1
\* approval records ever written
MaxApprovals == 2
\* signature attachments ever uploaded
MaxSigs == 2
\* elements of a workItems array in the runs that only create
MaxWorkItems == 3
\* documents ever created in the runs of interleaved creates
MaxConcDocs == 2

\* payment_logs rows and notifications rows up to which a settlement is started
MaxPayments == 2

MaxNotifications == 7

\* documents created in the runs of creates and deletes
MaxSeqDocs == 3

\* ------------------------------------------------------------- value sets

Null == "null"

None == << >>

Some(x) == << x >>

Slots == {"q1", "q2"}

Types == {"bapb", "bapp"}

Users == {"v1", "r1", "r2", "ad"}

\* a second account of role approver, which sends requests only in the runs
\* of interleaved approvals by two holders of the designated role
SecondApprover == "r3"

\* an account of role approver that has been deactivated: it sends no request
Deactivated == "r0"

\* users.role of the accounts
Role(u) ==
    CASE u = "v1" -> "vendor"
      [] u = "r1" -> "approver"
      [] u = "r2" -> "pic_gudang"
      [] u = "ad" -> "admin"
      [] u = SecondApprover -> "approver"
      [] u = Deactivated -> "approver"

\* users.is_active of the accounts
is_active(u) == u # Deactivated

DocIds == 1..MaxDocs

\* actual_progress / quantity of one line item
ItemVals == {40, 60}

\* one element of the items / workItems array: the value under its camelCase
\* key and under its snake_case key (0 where the key is absent or falsy)
Item(a, b) == [actualProgress |-> a, actual_progress |-> b]

\* arrays whose elements carry the camelCase key only
ItemLists == UNION {[1..n -> {Item(v, 0) : v \in ItemVals}] : n \in 0..MaxItems}

\* the items / workItems field of a request body: omitted, or an array
ItemInputs == {None} \cup {Some(l) : l \in ItemLists}

\* elements carrying one key, or both keys with different values
WorkItems == {Item(40, 0), Item(60, 0), Item(40, 60)}

WorkItemInputs ==
    {None} \cup {Some(l) : l \in UNION {[1..n -> WorkItems] : n \in 0..MaxWorkItems}}

\* rejectionReason / revisionReason of a request body: omitted, "", " ", "x"
ReasonInputs == {None, Some(<< >>), Some(<<" ">>), Some(<<"x">>)}

\* ---------------------------------------------------------- pure helpers

RECURSIVE TrimLeft(_)
TrimLeft(s) ==
    IF s # << >> /\ Head(s) = " " THEN TrimLeft(Tail(s)) ELSE s

RECURSIVE TrimRight(_)
TrimRight(s) ==
    IF s # << >> /\ s[Len(s)] = " " THEN TrimRight(SubSeq(s, 1, Len(s) - 1)) ELSE s

\* String.prototype.trim
Trim(s) == TrimLeft(TrimRight(s))

\* the reason check without the trim: a blank reason counts as given
ReasonMissing_untrimmed(r) == r = None \/ r[1] = << >>

\* !reason || reason.trim().length === 0
ReasonMissing(r) == r = None \/ r[1] = << >> \/ Len(Trim(r[1])) = 0

\* !items || !Array.isArray(items) || items.length === 0
ItemsMissing(its) == its = None \/ Len(its[1]) = 0

\* a || b on numbers
Or(a, b) == IF a # 0 THEN a ELSE b

\* the row inserted for one element: item.actualProgress || item.actual_progress || 0
ItemRow(it) == Or(Or(it.actualProgress, it.actual_progress), 0)

ItemRows(l) == [i \in 1..Len(l) |-> ItemRow(l[i])]

\* parseFloat(item.actual_progress || item.actualProgress || 0)
ProgressOf(it) == Or(Or(it.actual_progress, it.actualProgress), 0)

RECURSIVE SumProgress(_)
SumProgress(l) == IF l = << >> THEN 0 ELSE ProgressOf(Head(l)) + SumProgress(Tail(l))

\* (total / n).toFixed(2): the decimal with two fraction digits nearest to the
\* quotient, the larger one on a tie; given here in hundredths
toFixed2(total, n) == (200 * total + n) \div (2 * n)

\* _calculateTotalProgress(workItems)
calculateTotalProgress(l) ==
    IF Len(l) = 0 THEN 0 ELSE toFixed2(SumProgress(l), Len(l))

canManage(t, role) ==
    IF t = "bapb" THEN role \in {"vendor_barang", "vendor", "admin"}
    ELSE role \in {"vendor_jasa", "vendor", "admin"}

isVendorOfType(t, role) ==
    IF t = "bapb" THEN role \in {"vendor_barang", "vendor"}
    ELSE role \in {"vendor_jasa", "vendor"}

ReviewerRoles(t) ==
    IF t = "bapb" THEN {"pic_gudang", "approver", "admin"} ELSE {"approver", "admin"}

\* the role that is pinned as pic_gudang_id / direksi_pekerjaan_id
PrimaryRole(t) == IF t = "bapb" THEN "pic_gudang" ELSE "approver"

\* the review status check letting an approved document through
ReviewableStatuses_withApproved == {"submitted", "in_review", "approved"}

\* statuses a review action (approve, reject, request-revision) accepts
ReviewableStatuses == {"submitted", "in_review"}

\* the edit status check letting a rejected document through
EditableStatuses_withRejected == {"draft", "revision_required", "rejected"}

\* statuses update and submit accept
EditableStatuses == {"draft", "revision_required"}

StatusEnum == {"draft", "submitted", "in_review", "approved", "rejected", "revision_required"}

AllRoles == {"vendor", "vendor_barang", "vendor_jasa", "pic_gudang", "approver", "admin"}

\* the authorize(...) / authorizeVendorType(...) middleware of each route;
\* for POST /api/bapb/:id/submit the first registered route decides
RouteRoles(t, op) ==
    IF t = "bapb" THEN
        CASE op = "create" -> {"vendor_barang", "vendor", "admin"}
          [] op \in {"update", "delete"} -> {"vendor"}
          [] op = "submit" -> {"vendor", "vendor_barang", "vendor_jasa"}
          [] op \in {"approve", "approveMain", "reject", "revision"} -> {"pic_gudang", "approver", "admin"}
          [] OTHER -> AllRoles
    ELSE
        CASE op \in {"create", "update", "delete", "submit"} -> {"vendor_jasa", "vendor", "admin"}
          [] op \in {"approve", "reject", "revision"} -> {"approver", "admin"}
          [] OTHER -> AllRoles

\* ------------------------------------------------------------------ state

VARIABLES
    docs,           \* bapb / bapp rows by id
    items,          \* bapb_items / bapp_work_items of each document
    approvals,      \* bapb_approvals / bapp_approvals, in insertion order
    attachments,    \* signature rows of bapb_attachments / bapp_attachments
    notifications,  \* notifications, in insertion order
    payment_logs,   \* payment_logs, in insertion order
    nextId,         \* next fresh document id
    req,            \* the request each slot is serving, with its locals
    resp,           \* the response of each slot's request, once it is sent
    pre             \* the store as it was when the running request arrived

vars == << docs, items, approvals, attachments, notifications, payment_logs, nextId, req, resp, pre >>

storeVars == << docs, items, approvals, attachments, notifications, payment_logs, nextId >>

NoDoc ==
    [type |-> "none", vendor_id |-> Null, status |-> "none", rejection_reason |-> None,
     primary |-> Null, number |-> 0, total_progress |-> 0]

Idle ==
    [op |-> "none", t |-> "none", user |-> Null, doc |-> 0, pc |-> "idle",
     items |-> None, reason |-> None, loc |-> NoDoc, locItems |-> << >>,
     warn |-> "none", num |-> 0, fault |-> "none", gateway |-> "none"]

NoResp == [code |-> 0, warn |-> "none"]

Snap ==
    [valid |-> TRUE, docs |-> docs, items |-> items, approvals |-> approvals,
     attachments |-> attachments, notifications |-> notifications,
     payment_logs |-> payment_logs]

NoSnap ==
    [valid |-> FALSE, docs |-> << >>, items |-> << >>, approvals |-> << >>,
     attachments |-> << >>, notifications |-> << >>, payment_logs |-> << >>]

Init ==
    /\ docs = << >>
    /\ items = << >>
    /\ approvals = << >>
    /\ attachments = << >>
    /\ notifications = << >>
    /\ payment_logs = << >>
    /\ nextId = 1
    /\ req = [q \in Slots |-> Idle]
    /\ resp = [q \in Slots |-> NoResp]
    /\ pre = NoSnap

\* -------------------------------------------------------- store operations

\* findById / findByIdWithRelations on the table of type t
Exists(t, d) == d \in DOMAIN docs /\ docs[d].type = t

\* BaseRepository.update: the row's fields replaced by those of upd
UpdatedDocs(d, upd) == [docs EXCEPT ![d] = upd]

\* BaseRepository.delete, with the cascade to the rows the document owns
DeletedDocs(d) == [i \in DOMAIN docs \ {d} |-> docs[i]]

DeletedItems(d) == [i \in DOMAIN items \ {d} |-> items[i]]

DeletedAttachments(d) == SelectSeq(attachments, LAMBDA a : a.doc # d)

\* rows of the approvals table for (document, approver, action = approved)
ApprovedRows(d, u) ==
    {i \in 1..Len(approvals) :
        approvals[i].doc = d /\ approvals[i].approver = u /\ approvals[i].action = "approved"}

\* hasUserApproved: .single() gives data only for exactly one row; no row and
\* several rows both come back as PGRST116, which is swallowed
hasUserApproved(d, u) == Cardinality(ApprovedRows(d, u)) = 1

\* signature rows of (document, uploader)
SignatureRows(d, u) ==
    {i \in 1..Len(attachments) : attachments[i].doc = d /\ attachments[i].uploaded_by = u}

\* count of the type's documents created this month
CountThisMonth(t) == Cardinality({i \in DOMAIN docs : docs[i].type = t})

\* the rows of the users table
Accounts == Users \cup {SecondApprover, Deactivated}

\* the recipient query without its is_active filter
ActiveWithRole_anyStatus(roles) == {u \in Accounts : Role(u) \in roles}

\* .in('role', roles).eq('is_active', true)
ActiveWithRole(roles) == {u \in Accounts : Role(u) \in roles /\ is_active(u)}

RECURSIVE SetToSeq(_)
SetToSeq(S) ==
    IF S = {} THEN << >>
    ELSE LET x == CHOOSE y \in S : TRUE IN << x >> \o SetToSeq(S \ {x})

\* createBulkNotifications: one row per recipient
BulkNotifications(us, type, d) ==
    [i \in 1..Cardinality(us) |-> [user |-> SetToSeq(us)[i], type |-> type, doc |-> d]]

\* ------------------------------------------------------ request plumbing

Response(code, w) == [code |-> code, warn |-> w]

\* res.status(code).json(...): the handler ends
Respond(q, code, w) ==
    /\ resp' = [resp EXCEPT ![q] = Response(code, w)]
    /\ req' = [req EXCEPT ![q].pc = "done"]

Goto(q, pc) ==
    /\ req' = [req EXCEPT ![q].pc = pc]
    /\ UNCHANGED resp

OthersIdle(q) == \A p \in Slots \ {q} : req[p] = Idle

\* review requests in flight, each of which may still write one approval row
ReviewsInFlight == Cardinality({p \in Slots : req[p].op \in {"approve", "approveMain", "reject", "revision"}})

CreatesInFlight == Cardinality({p \in Slots : req[p].op = "create" /\ req[p].pc \in {"validate", "genNumber", "insertDoc"}})

UploadsInFlight == Cardinality({p \in Slots : req[p].op = "signature"})

\* ids are UUIDs of one table: a request names a document through the routes
\* of the document's own table, or names an id that neither table holds
Addressable(t, d) == d \in DOMAIN docs => docs[d].type = t

\* protect + authorize: the request reaches the controller or is refused 403
Arrive(q, r, first) ==
    /\ req[q] = Idle
    /\ Addressable(r.t, r.doc)
    /\ pre' = IF OthersIdle(q) THEN Snap ELSE NoSnap
    /\ IF Role(r.user) \notin RouteRoles(r.t, r.op)
       THEN /\ resp' = [resp EXCEPT ![q] = Response(403, "none")]
            /\ req' = [req EXCEPT ![q] = [r EXCEPT !.pc = "done"]]
       ELSE /\ resp' = resp
            /\ req' = [req EXCEPT ![q] = [r EXCEPT !.pc = first]]
    /\ UNCHANGED storeVars

\* the response has been sent: the slot is free for the next request
Finish(q) ==
    /\ req[q].pc = "done"
    /\ req' = [req EXCEPT ![q] = Idle]
    /\ resp' = [resp EXCEPT ![q] = NoResp]
    /\ pre' = NoSnap
    /\ UNCHANGED storeVars

\* ------------------------------------------------------------------ create

NewRequest(op, t, u, d, its, rsn) ==
    [Idle EXCEPT !.op = op, !.t = t, !.user = u, !.doc = d, !.items = its, !.reason = rsn]

At(q, op, pc) == req[q].op = op /\ req[q].pc = pc

\* POST /api/bapb, POST /api/bapp
StartCreate(q, t, u, its) ==
    /\ nextId + CreatesInFlight <= MaxDocs
    /\ Arrive(q, NewRequest("create", t, u, 0, its, None), "validate")

\* createBAPB / createBAPP up to the first store call: role and body checks
CreateValidate(q) ==
    /\ At(q, "create", "validate")
    /\ IF ~canManage(req[q].t, Role(req[q].user)) THEN Respond(q, 403, "none")
       ELSE IF ItemsMissing(req[q].items) THEN Respond(q, 400, "none")
       ELSE Goto(q, "genNumber")
    /\ UNCHANGED << storeVars, pre >>

\* generateBAPBNumber / generateBAPPNumber: sequence = count + 1
CreateGenNumber(q) ==
    /\ At(q, "create", "genNumber")
    /\ req' = [req EXCEPT ![q].num = CountThisMonth(req[q].t) + 1, ![q].pc = "insertDoc"]
    /\ UNCHANGED << storeVars, resp, pre >>

\* bapbData / bappData of the controller; createWithWorkItems adds
\* total_progress (a bapb row has no such column: 0)
NewDoc(t, u, n, its) ==
    [type |-> t, vendor_id |-> u, status |-> "draft", rejection_reason |-> None,
     primary |-> Null, number |-> n,
     total_progress |-> IF t = "bapp" THEN calculateTotalProgress(its) ELSE 0]

\* a create that takes its sequence from the table as it is when it inserts
CreateInsertDoc_recount(q) ==
    /\ At(q, "create", "insertDoc")
    /\ docs' = [i \in DOMAIN docs \cup {nextId} |->
                  IF i = nextId
                  THEN NewDoc(req[q].t, req[q].user, CountThisMonth(req[q].t) + 1, req[q].items[1])
                  ELSE docs[i]]
    /\ items' = [i \in DOMAIN items \cup {nextId} |-> IF i = nextId THEN << >> ELSE items[i]]
    /\ nextId' = nextId + 1
    /\ req' = [req EXCEPT ![q].doc = nextId, ![q].pc = "insertItems"]
    /\ UNCHANGED << approvals, attachments, notifications, resp, payment_logs, pre >>

\* createWithItems / createWithWorkItems: this.create(data)
CreateInsertDoc(q) ==
    /\ At(q, "create", "insertDoc")
    /\ docs' = [i \in DOMAIN docs \cup {nextId} |->
                  IF i = nextId
                  THEN NewDoc(req[q].t, req[q].user, req[q].num, req[q].items[1])
                  ELSE docs[i]]
    /\ items' = [i \in DOMAIN items \cup {nextId} |-> IF i = nextId THEN << >> ELSE items[i]]
    /\ nextId' = nextId + 1
    /\ req' = [req EXCEPT ![q].doc = nextId, ![q].pc = "insertItems"]
    /\ UNCHANGED << approvals, attachments, notifications, resp, payment_logs, pre >>

\* createWithItems / createWithWorkItems: the bulk insert of the line items
CreateInsertItems(q) ==
    /\ At(q, "create", "insertItems")
    /\ IF ~Exists(req[q].t, req[q].doc)
       THEN /\ Respond(q, 500, "none")
            /\ UNCHANGED items
       ELSE /\ items' = [items EXCEPT ![req[q].doc] = @ \o ItemRows(req[q].items[1])]
            /\ Goto(q, "refetch")
    /\ UNCHANGED << docs, approvals, attachments, notifications, nextId, payment_logs, pre >>

\* createWithItems' findByIdWithRelations and the controller's items check
CreateRefetch(q) ==
    /\ At(q, "create", "refetch")
    /\ IF ~Exists(req[q].t, req[q].doc) THEN Respond(q, 500, "none")
       ELSE IF Len(items[req[q].doc]) = 0 THEN Respond(q, 500, "none")
       ELSE Respond(q, 201, "none")
    /\ UNCHANGED << storeVars, pre >>

\* ------------------------------------------------------------------ update

\* PUT /api/bapb/:id, PUT /api/bapp/:id
StartUpdate(q, t, u, d, its) ==
    Arrive(q, NewRequest("update", t, u, d, its, None), "find")

\* the repository's first store call: BAPB updates the row first, BAPP the items
UpdateFirstPc(t, its) ==
    IF t = "bapb" THEN "updDoc" ELSE IF its # None THEN "delItems" ELSE "updDoc"

\* updateBAPB / updateBAPP: findById and the owner, role and status checks
UpdateFind(q) ==
    /\ At(q, "update", "find")
    /\ LET r == req[q]
           d == r.doc
       IN  IF ~Exists(r.t, d) THEN Respond(q, 404, "none")
           ELSE IF isVendorOfType(r.t, Role(r.user)) /\ docs[d].vendor_id # r.user
                THEN Respond(q, 403, "none")
           ELSE IF ~canManage(r.t, Role(r.user)) THEN Respond(q, 403, "none")
           ELSE IF docs[d].status \notin EditableStatuses THEN Respond(q, 400, "none")
           ELSE /\ req' = [req EXCEPT ![q].loc = docs[d], ![q].pc = UpdateFirstPc(r.t, r.items)]
                /\ UNCHANGED resp
    /\ UNCHANGED << storeVars, pre >>

\* updateData that resets the status but keeps the old rejection_reason
UpdateRow_statusOnly(cur, loc) ==
    IF loc.status = "revision_required" THEN [cur EXCEPT !.status = "draft"] ELSE cur

\* updateData: status and rejection_reason are written only when the row read
\* was revision_required
UpdateRow(cur, loc) ==
    IF loc.status = "revision_required"
    THEN [cur EXCEPT !.status = "draft", !.rejection_reason = None]
    ELSE cur

\* updateWithWorkItems: updateData.total_progress, set when workItems is given
WithProgress(row, t, its) ==
    IF t = "bapp" /\ its # None
    THEN [row EXCEPT !.total_progress = calculateTotalProgress(its[1])]
    ELSE row

\* updateWithItems / updateWithWorkItems: this.update(id, data)
UpdateDoc(q) ==
    /\ At(q, "update", "updDoc")
    /\ LET r == req[q]
           d == r.doc
       IN  IF ~Exists(r.t, d)
           THEN /\ Respond(q, 500, "none")
                /\ UNCHANGED docs
           ELSE /\ docs' = UpdatedDocs(d, WithProgress(UpdateRow(docs[d], r.loc), r.t, r.items))
                /\ Goto(q, IF r.t = "bapb" /\ r.items # None THEN "delItems" ELSE "refetch")
    /\ UNCHANGED << items, approvals, attachments, notifications, nextId, payment_logs, pre >>

\* what follows the delete and the insert of the items
UpdateAfterItems(t) == IF t = "bapb" THEN "refetch" ELSE "updDoc"

\* the update going on to its insert without deleting the old items
UpdateDelItems_keep(q) ==
    /\ At(q, "update", "delItems")
    /\ Goto(q, IF Len(req[q].items[1]) > 0 THEN "insItems" ELSE UpdateAfterItems(req[q].t))
    /\ UNCHANGED << storeVars, pre >>

\* updateWithItems / updateWithWorkItems: delete every item of the document
UpdateDelItems(q) ==
    /\ At(q, "update", "delItems")
    /\ LET r == req[q]
           d == r.doc
       IN  /\ items' = IF d \in DOMAIN items THEN [items EXCEPT ![d] = << >>] ELSE items
           /\ Goto(q, IF Len(r.items[1]) > 0 THEN "insItems" ELSE UpdateAfterItems(r.t))
    /\ UNCHANGED << docs, approvals, attachments, notifications, nextId, payment_logs, pre >>

\* updateWithItems / updateWithWorkItems: insert the replacement items
UpdateInsItems(q) ==
    /\ At(q, "update", "insItems")
    /\ LET r == req[q]
           d == r.doc
       IN  IF ~Exists(r.t, d)
           THEN /\ Respond(q, 500, "none")
                /\ UNCHANGED items
           ELSE /\ items' = [items EXCEPT ![d] = @ \o ItemRows(r.items[1])]
                /\ Goto(q, UpdateAfterItems(r.t))
    /\ UNCHANGED << docs, approvals, attachments, notifications, nextId, payment_logs, pre >>

\* the final findByIdWithRelations and the 200 response
UpdateRefetch(q) ==
    /\ At(q, "update", "refetch")
    /\ Respond(q, 200, "none")
    /\ UNCHANGED << storeVars, pre >>

\* ------------------------------------------------------------------ delete

\* DELETE /api/bapb/:id, DELETE /api/bapp/:id
StartDelete(q, t, u, d) ==
    Arrive(q, NewRequest("delete", t, u, d, None, None), "find")

\* delete with the status check of update: revision_required passes too
DeleteFind_editable(q) ==
    /\ At(q, "delete", "find")
    /\ LET r == req[q]
           d == r.doc
       IN  IF ~Exists(r.t, d) THEN Respond(q, 404, "none")
           ELSE IF isVendorOfType(r.t, Role(r.user)) /\ docs[d].vendor_id # r.user
                THEN Respond(q, 403, "none")
           ELSE IF ~canManage(r.t, Role(r.user)) THEN Respond(q, 403, "none")
           ELSE IF docs[d].status \notin EditableStatuses THEN Respond(q, 400, "none")
           ELSE Goto(q, "del")
    /\ UNCHANGED << storeVars, pre >>

\* deleteBAPB / deleteBAPP: findById and the owner, role and status checks
DeleteFind(q) ==
    /\ At(q, "delete", "find")
    /\ LET r == req[q]
           d == r.doc
       IN  IF ~Exists(r.t, d) THEN Respond(q, 404, "none")
           ELSE IF isVendorOfType(r.t, Role(r.user)) /\ docs[d].vendor_id # r.user
                THEN Respond(q, 403, "none")
           ELSE IF ~canManage(r.t, Role(r.user)) THEN Respond(q, 403, "none")
           ELSE IF docs[d].status # "draft" THEN Respond(q, 400, "none")
           ELSE Goto(q, "del")
    /\ UNCHANGED << storeVars, pre >>

\* BaseRepository.delete(id); the document's items and attachments go with it
DeleteRow(q) ==
    /\ At(q, "delete", "del")
    /\ LET d == req[q].doc
       IN  /\ docs' = DeletedDocs(d)
           /\ items' = DeletedItems(d)
           /\ attachments' = DeletedAttachments(d)
    /\ Respond(q, 200, "none")
    /\ UNCHANGED << approvals, notifications, nextId, payment_logs, pre >>

\* ------------------------------------------------------------------ submit

\* POST /api/bapb/:id/submit, POST /api/bapp/:id/submit
StartSubmit(q, t, u, d) ==
    Arrive(q, NewRequest("submit", t, u, d, None, None), "find")

\* submitBAPB / submitBAPP: findByIdWithRelations and the checks
SubmitFind(q) ==
    /\ At(q, "submit", "find")
    /\ LET r == req[q]
           d == r.doc
       IN  IF ~Exists(r.t, d) THEN Respond(q, 404, "none")
           ELSE IF docs[d].vendor_id # r.user THEN Respond(q, 403, "none")
           ELSE IF ~canManage(r.t, Role(r.user)) THEN Respond(q, 403, "none")
           ELSE IF docs[d].status \notin EditableStatuses THEN Respond(q, 400, "none")
           ELSE IF Len(items[d]) = 0 THEN Respond(q, 400, "none")
           ELSE /\ req' = [req EXCEPT ![q].loc = docs[d], ![q].locItems = items[d], ![q].pc = "setStatus"]
                /\ UNCHANGED resp
    /\ UNCHANGED << storeVars, pre >>

\* updateStatus(id, 'submitted')
SubmitSetStatus(q) ==
    /\ At(q, "submit", "setStatus")
    /\ LET d == req[q].doc
       IN  IF ~Exists(req[q].t, d)
           THEN /\ Respond(q, 500, "none")
                /\ UNCHANGED docs
           ELSE /\ docs' = UpdatedDocs(d, [docs[d] EXCEPT !.status = "submitted"])
                /\ Goto(q, "notify")
    /\ UNCHANGED << items, approvals, attachments, notifications, nextId, payment_logs, pre >>

\* notifyBAPBSubmitted / notifyBAPPSubmitted, then the 200 response
SubmitNotify(q) ==
    /\ At(q, "submit", "notify")
    /\ notifications' = notifications \o
          BulkNotifications(ActiveWithRole(ReviewerRoles(req[q].t)), "submitted", req[q].doc)
    /\ Respond(q, 200, "none")
    /\ UNCHANGED << docs, items, approvals, attachments, nextId, payment_logs, pre >>

\* ----------------------------------------------------------------- approve

ReviewOps == {"approve", "approveMain", "reject", "revision"}

\* POST /api/bapb/:id/approve served by src/controllers (approveBAPB) and
\* POST /api/bapp/:id/approve (approveBAPP)
StartApprove(q, t, u, d) ==
    /\ Len(approvals) + ReviewsInFlight < MaxApprovals
    /\ Arrive(q, NewRequest("approve", t, u, d, None, None), "find")

\* POST /api/bapb/:id/approve served by backend-main/src/controllers
StartApproveMain(q, u, d) ==
    /\ Len(approvals) + ReviewsInFlight < MaxApprovals
    /\ Arrive(q, NewRequest("approveMain", "bapb", u, d, None, None), "find")

\* a review handler that looks the document up and goes straight to its write,
\* without the status check and without the duplicate-approval check
ReviewFind_unchecked(q) ==
    /\ req[q].op \in ReviewOps /\ req[q].pc = "find"
    /\ LET r == req[q]
           d == r.doc
       IN  IF ~Exists(r.t, d) THEN Respond(q, 404, "none")
           ELSE IF Role(r.user) \notin ReviewerRoles(r.t) THEN Respond(q, 403, "none")
           ELSE /\ req' = [req EXCEPT ![q].loc = docs[d],
                                      ![q].pc = IF r.op = "approveMain"
                                                THEN "hasApproved" ELSE "createApproval"]
                /\ UNCHANGED resp
    /\ UNCHANGED << storeVars, pre >>

\* approve / reject / request-revision: the document lookup, then the status
\* check, then the role check
ReviewFind(q) ==
    /\ req[q].op \in ReviewOps /\ req[q].pc = "find"
    /\ LET r == req[q]
           d == r.doc
       IN  IF ~Exists(r.t, d) THEN Respond(q, 404, "none")
           ELSE IF docs[d].status \notin ReviewableStatuses THEN Respond(q, 400, "none")
           ELSE IF Role(r.user) \notin ReviewerRoles(r.t) THEN Respond(q, 403, "none")
           ELSE /\ req' = [req EXCEPT ![q].loc = docs[d],
                                      ![q].pc = IF r.op \in {"approve", "approveMain"}
                                                THEN "hasApproved" ELSE "createApproval"]
                /\ UNCHANGED resp
    /\ UNCHANGED << storeVars, pre >>

\* approveBAPB (src/controllers) and approveBAPP: the duplicate-approval check
ApproveHasApproved(q) ==
    /\ At(q, "approve", "hasApproved")
    /\ IF hasUserApproved(req[q].doc, req[q].user) THEN Respond(q, 400, "none")
       ELSE Goto(q, "sigCheck")
    /\ UNCHANGED << storeVars, pre >>

\* approveBAPB (backend-main): after the duplicate-approval check the handler
\* reads the undeclared name `signature`; the ReferenceError is caught and
\* answered with 500
ApproveMainHasApproved(q) ==
    /\ At(q, "approveMain", "hasApproved")
    /\ IF hasUserApproved(req[q].doc, req[q].user) THEN Respond(q, 400, "none")
       ELSE Respond(q, 500, "none")
    /\ UNCHANGED << storeVars, pre >>

\* approveBAPB's signature lookup with maybeSingle(): no row gives a warning,
\* several rows give an error, which is a warning too
SignatureWarning(n) ==
    IF n = 0 THEN "missing" ELSE IF n = 1 THEN "none" ELSE "unverified"

\* approveBAPP's signature lookup with single(): data only for exactly one row
SignatureFound(n) == n = 1

\* approveBAPP writing its approval record before it looks for the signature
ApproveSigCheck_recordFirst(q) ==
    /\ At(q, "approve", "sigCheck")
    /\ LET r == req[q]
           n == Cardinality(SignatureRows(r.doc, r.user))
       IN  IF r.t = "bapb"
           THEN /\ req' = [req EXCEPT ![q].warn = SignatureWarning(n), ![q].pc = "createApproval"]
                /\ UNCHANGED << resp, approvals >>
           ELSE IF ~SignatureFound(n)
                THEN /\ approvals' = Append(approvals,
                            [doc |-> r.doc, approver |-> r.user, action |-> "approved"])
                     /\ Respond(q, 400, "none")
           ELSE /\ Goto(q, "update")
                /\ approvals' = Append(approvals,
                       [doc |-> r.doc, approver |-> r.user, action |-> "approved"])
    /\ UNCHANGED << docs, items, attachments, notifications, nextId, payment_logs, pre >>

\* the signature check of approveBAPB (never refuses) and approveBAPP (refuses)
ApproveSigCheck(q) ==
    /\ At(q, "approve", "sigCheck")
    /\ LET r == req[q]
           n == Cardinality(SignatureRows(r.doc, r.user))
       IN  IF r.t = "bapb"
           THEN /\ req' = [req EXCEPT ![q].warn = SignatureWarning(n), ![q].pc = "createApproval"]
                /\ UNCHANGED resp
           ELSE IF ~SignatureFound(n) THEN Respond(q, 400, "none")
           ELSE Goto(q, "createApproval")
    /\ UNCHANGED << storeVars, pre >>

\* the action each handler records
ActionOf(op) ==
    CASE op = "approve" -> "approved"
      [] op = "reject" -> "rejected"
      [] op = "revision" -> "revision_required"

\* createApproval({ ..._id, approver_id, action, notes })
ReviewCreateApproval(q) ==
    /\ req[q].op \in {"approve", "reject", "revision"} /\ req[q].pc = "createApproval"
    /\ LET r == req[q]
       IN  IF ~Exists(r.t, r.doc)
           THEN /\ Respond(q, 500, "none")
                /\ UNCHANGED approvals
           ELSE /\ approvals' = Append(approvals,
                       [doc |-> r.doc, approver |-> r.user, action |-> ActionOf(r.op)])
                /\ Goto(q, "update")
    /\ UNCHANGED << docs, items, attachments, notifications, nextId, payment_logs, pre >>

\* approve's updateData writing in_review instead of approved
ApproveRow_inReview(cur, loc, t, u) ==
    IF loc.primary = Null /\ Role(u) = PrimaryRole(t)
    THEN [cur EXCEPT !.status = "in_review", !.primary = u]
    ELSE [cur EXCEPT !.status = "in_review"]

\* approve's updateData writing the caller into vendor_id as well
ApproveRow_reassigned(cur, loc, t, u) ==
    [cur EXCEPT !.status = "approved", !.primary = u, !.vendor_id = u]

\* approve's updateData: status, and the primary reviewer when the row read
\* had none and the caller holds the designated role
ApproveRow(cur, loc, t, u) ==
    IF loc.primary = Null /\ Role(u) = PrimaryRole(t)
    THEN [cur EXCEPT !.status = "approved", !.primary = u]
    ELSE [cur EXCEPT !.status = "approved"]

\* reject's updateData storing the reason without its surrounding blanks
ReviewRow_trimmed(cur, op, rsn) ==
    [cur EXCEPT !.status = ActionOf(op), !.rejection_reason = Some(Trim(rsn[1]))]

\* reject's and request-revision's updateData
ReviewRow(cur, op, rsn) ==
    [cur EXCEPT !.status = ActionOf(op), !.rejection_reason = rsn]

\* update(id, updateData) of approve, reject and request-revision
ReviewUpdate(q) ==
    /\ req[q].op \in {"approve", "reject", "revision"} /\ req[q].pc = "update"
    /\ LET r == req[q]
           d == r.doc
       IN  IF ~Exists(r.t, d)
           THEN /\ Respond(q, 500, "none")
                /\ UNCHANGED docs
           ELSE /\ docs' = UpdatedDocs(d, IF r.op = "approve"
                                          THEN ApproveRow(docs[d], r.loc, r.t, r.user)
                                          ELSE ReviewRow(docs[d], r.op, r.reason))
                /\ Goto(q, "notify")
    /\ UNCHANGED << items, approvals, attachments, notifications, nextId, payment_logs, pre >>

\* a failed insert of the approval record that is logged and not thrown: the
\* handler goes on to its status update
ReviewCreateApprovalFails_swallowed(q) ==
    /\ req[q].op \in {"approve", "reject", "revision"} /\ req[q].pc = "createApproval"
    /\ req' = [req EXCEPT ![q].fault = "createApproval", ![q].pc = "update"]
    /\ UNCHANGED << storeVars, resp, pre >>

\* createApproval: the insert returns an error, which is thrown and answered
\* with 500; nothing has been written
ReviewCreateApprovalFails(q) ==
    /\ req[q].op \in {"approve", "reject", "revision"} /\ req[q].pc = "createApproval"
    /\ resp' = [resp EXCEPT ![q] = Response(500, "none")]
    /\ req' = [req EXCEPT ![q].fault = "createApproval", ![q].pc = "done"]
    /\ UNCHANGED << storeVars, pre >>

\* update(id, updateData): the store returns an error, which is thrown and
\* answered with 500; the approval record written before it stays
ReviewUpdateFails(q) ==
    /\ req[q].op \in {"approve", "reject", "revision"} /\ req[q].pc = "update"
    /\ resp' = [resp EXCEPT ![q] = Response(500, "none")]
    /\ req' = [req EXCEPT ![q].fault = "update", ![q].pc = "done"]
    /\ UNCHANGED << storeVars, pre >>

\* notify...Approved / Rejected / RevisionRequired to the vendor, then the 200
\* response (approveBAPB adds the warning field when there is one)
ReviewNotify(q) ==
    /\ req[q].op \in {"approve", "reject", "revision"} /\ req[q].pc = "notify"
    /\ notifications' = Append(notifications,
           [user |-> req[q].loc.vendor_id, type |-> ActionOf(req[q].op), doc |-> req[q].doc])
    /\ Respond(q, 200, req[q].warn)
    /\ UNCHANGED << docs, items, approvals, attachments, nextId, payment_logs, pre >>

\* ------------------------------------------------- reject, request-revision

\* POST /api/bapb/:id/reject, POST /api/bapp/:id/reject
StartReject(q, t, u, d, rsn) ==
    /\ Len(approvals) + ReviewsInFlight < MaxApprovals
    /\ Arrive(q, NewRequest("reject", t, u, d, None, rsn), "validate")

\* POST /api/bapb/:id/revision, POST /api/bapp/:id/revision
StartRevision(q, t, u, d, rsn) ==
    /\ Len(approvals) + ReviewsInFlight < MaxApprovals
    /\ Arrive(q, NewRequest("revision", t, u, d, None, rsn), "validate")

\* reject... / requestRevision...: the reason check before any store call
ReviewValidate(q) ==
    /\ req[q].op \in {"reject", "revision"} /\ req[q].pc = "validate"
    /\ IF ReasonMissing(req[q].reason) THEN Respond(q, 400, "none")
       ELSE Goto(q, "find")
    /\ UNCHANGED << storeVars, pre >>

\* --------------------------------------------------------- signature upload

\* POST /api/bapb/:id/signature, POST /api/bapp/:id/signature
StartUploadSignature(q, t, u, d) ==
    /\ Len(attachments) + UploadsInFlight < MaxSigs
    /\ Arrive(q, NewRequest("signature", t, u, d, None, None), "find")

canSign(t, role, owner) ==
    IF t = "bapb"
    THEN (role = "vendor_barang" /\ owner) \/ role \in {"pic_gudang", "approver", "admin"}
    ELSE (role = "vendor_jasa" /\ owner) \/ role \in {"approver", "admin"}

\* uploadBAPBSignature / uploadBAPPSignature: findById and canSign
SignatureFind(q) ==
    /\ At(q, "signature", "find")
    /\ LET r == req[q]
           d == r.doc
       IN  IF ~Exists(r.t, d) THEN Respond(q, 404, "none")
           ELSE IF ~canSign(r.t, Role(r.user), docs[d].vendor_id = r.user)
                THEN Respond(q, 403, "none")
           ELSE Goto(q, "insert")
    /\ UNCHANGED << storeVars, pre >>

\* the insert into bapb_attachments / bapp_attachments, then the 201 response
SignatureInsert(q) ==
    /\ At(q, "signature", "insert")
    /\ LET r == req[q]
       IN  IF ~Exists(r.t, r.doc)
           THEN /\ Respond(q, 500, "none")
                /\ UNCHANGED attachments
           ELSE /\ attachments' = Append(attachments, [doc |-> r.doc, uploaded_by |-> r.user])
                /\ Respond(q, 201, "none")
    /\ UNCHANGED << docs, items, approvals, notifications, nextId, payment_logs, pre >>

\* ----------------------------------------------------------- specification

\* one step of the request served by slot q
Step(q) ==
    \/ \E t \in Types, u \in Users, its \in ItemInputs : StartCreate(q, t, u, its)
    \/ CreateValidate(q)
    \/ CreateGenNumber(q)
    \/ CreateInsertDoc(q)
    \/ CreateInsertItems(q)
    \/ CreateRefetch(q)
    \/ \E t \in Types, u \in Users, d \in DocIds, its \in ItemInputs : StartUpdate(q, t, u, d, its)
    \/ UpdateFind(q)
    \/ UpdateDoc(q)
    \/ UpdateDelItems(q)
    \/ UpdateInsItems(q)
    \/ UpdateRefetch(q)
    \/ \E t \in Types, u \in Users, d \in DocIds : StartDelete(q, t, u, d)
    \/ DeleteFind(q)
    \/ DeleteRow(q)
    \/ \E t \in Types, u \in Users, d \in DocIds : StartSubmit(q, t, u, d)
    \/ SubmitFind(q)
    \/ SubmitSetStatus(q)
    \/ SubmitNotify(q)
    \/ \E t \in Types, u \in Users, d \in DocIds : StartApprove(q, t, u, d)
    \/ \E u \in Users, d \in DocIds : StartApproveMain(q, u, d)
    \/ ReviewFind(q)
    \/ ApproveHasApproved(q)
    \/ ApproveMainHasApproved(q)
    \/ ApproveSigCheck(q)
    \/ ReviewCreateApproval(q)
    \/ ReviewUpdate(q)
    \/ ReviewNotify(q)
    \/ \E t \in Types, u \in Users, d \in DocIds, rsn \in ReasonInputs : StartReject(q, t, u, d, rsn)
    \/ \E t \in Types, u \in Users, d \in DocIds, rsn \in ReasonInputs : StartRevision(q, t, u, d, rsn)
    \/ ReviewValidate(q)
    \/ \E t \in Types, u \in Users, d \in DocIds : StartUploadSignature(q, t, u, d)
    \/ SignatureFind(q)
    \/ SignatureInsert(q)
    \/ Finish(q)

\* requests served one at a time
Next == Step("q1")

Spec == Init /\ [][Next]_vars

\* ------------------------------------------- interleaved approval requests

\* the vendor and the line items of the interleaved runs
ConcVendor == "v1"

ConcItems == Some(<< Item(40, 0) >>)

\* the reviewers whose requests interleave
ConcReviewers == {"r1", "ad"}

\* one step of slot q in the runs where a document is created, submitted,
\* signed and approved, with any number of these requests in flight at once
ConcStep(q) ==
    \/ \E t \in Types : StartCreate(q, t, ConcVendor, ConcItems)
    \/ CreateValidate(q)
    \/ CreateGenNumber(q)
    \/ CreateInsertDoc(q)
    \/ CreateInsertItems(q)
    \/ CreateRefetch(q)
    \/ \E t \in Types, d \in DocIds : StartSubmit(q, t, ConcVendor, d)
    \/ SubmitFind(q)
    \/ SubmitSetStatus(q)
    \/ SubmitNotify(q)
    \/ \E t \in Types, u \in ConcReviewers, d \in DocIds : StartUploadSignature(q, t, u, d)
    \/ SignatureFind(q)
    \/ SignatureInsert(q)
    \/ \E t \in Types, u \in ConcReviewers, d \in DocIds : StartApprove(q, t, u, d)
    \/ ReviewFind(q)
    \/ ApproveHasApproved(q)
    \/ ApproveSigCheck(q)
    \/ ReviewCreateApproval(q)
    \/ ReviewCreateApprovalFails(q)
    \/ ReviewUpdate(q)
    \/ ReviewUpdateFails(q)
    \/ ReviewNotify(q)
    \/ Finish(q)

\* requests of both slots interleaved store call by store call
NextConc == \E q \in Slots : ConcStep(q)

SpecConc == Init /\ [][NextConc]_vars

\* ------------------------------------------------------ store-call failures

\* createWithItems / createWithWorkItems: the bulk insert returns itemsError;
\* no item row is written
CreateInsertItemsFails(q) ==
    /\ At(q, "create", "insertItems")
    /\ req' = [req EXCEPT ![q].fault = "insertItems", ![q].pc = "rollback"]
    /\ UNCHANGED << storeVars, resp, pre >>

\* the failed create answering 500 and leaving the row it created in place
CreateRollback_noDelete(q) ==
    /\ At(q, "create", "rollback")
    /\ Respond(q, 500, "none")
    /\ UNCHANGED << storeVars, pre >>

\* the rollback: await this.delete(id), then throw new Error('Failed to create
\* ... items'), which the controller answers with 500
CreateRollback(q) ==
    /\ At(q, "create", "rollback")
    /\ LET d == req[q].doc
       IN  /\ docs' = DeletedDocs(d)
           /\ items' = DeletedItems(d)
           /\ attachments' = DeletedAttachments(d)
    /\ Respond(q, 500, "none")
    /\ UNCHANGED << approvals, notifications, nextId, payment_logs, pre >>

\* the rollback's own delete fails: BaseRepository.delete throws, the row
\* stays, and that error is the one answered with 500
CreateRollbackFails(q) ==
    /\ At(q, "create", "rollback")
    /\ resp' = [resp EXCEPT ![q] = Response(500, "none")]
    /\ req' = [req EXCEPT ![q].fault = "rollback", ![q].pc = "done"]
    /\ UNCHANGED << storeVars, pre >>

\* updateWithItems / updateWithWorkItems: the delete of the old items returns
\* deleteError, which is thrown and answered with 500
UpdateDelItemsFails(q) ==
    /\ At(q, "update", "delItems")
    /\ resp' = [resp EXCEPT ![q] = Response(500, "none")]
    /\ req' = [req EXCEPT ![q].fault = "delItems", ![q].pc = "done"]
    /\ UNCHANGED << storeVars, pre >>

\* a failed insert of the replacement items that puts the old items back
UpdateInsItemsFails_restoring(q) ==
    /\ At(q, "update", "insItems")
    /\ items' = [items EXCEPT ![req[q].doc] = pre.items[req[q].doc]]
    /\ resp' = [resp EXCEPT ![q] = Response(500, "none")]
    /\ req' = [req EXCEPT ![q].fault = "insItems", ![q].pc = "done"]
    /\ UNCHANGED << docs, approvals, attachments, notifications, nextId, payment_logs, pre >>

\* updateWithItems / updateWithWorkItems: the insert of the replacement items
\* returns insertError, which is thrown and answered with 500
UpdateInsItemsFails(q) ==
    /\ At(q, "update", "insItems")
    /\ resp' = [resp EXCEPT ![q] = Response(500, "none")]
    /\ req' = [req EXCEPT ![q].fault = "insItems", ![q].pc = "done"]
    /\ UNCHANGED << storeVars, pre >>

\* updateWithItems / updateWithWorkItems: this.update(id, data) throws, which
\* is answered with 500
UpdateDocFails(q) ==
    /\ At(q, "update", "updDoc")
    /\ resp' = [resp EXCEPT ![q] = Response(500, "none")]
    /\ req' = [req EXCEPT ![q].fault = "updDoc", ![q].pc = "done"]
    /\ UNCHANGED << storeVars, pre >>

\* the callers of the runs with failing store calls
FaultUsers == {"v1", "ad"}

\* one step of slot q in the runs where documents are created, updated and
\* submitted and an item write may fail
FaultStep(q) ==
    \/ \E t \in Types, u \in FaultUsers, its \in ItemInputs : StartCreate(q, t, u, its)
    \/ CreateValidate(q)
    \/ CreateGenNumber(q)
    \/ CreateInsertDoc(q)
    \/ CreateInsertItems(q)
    \/ CreateInsertItemsFails(q)
    \/ CreateRollback(q)
    \/ CreateRollbackFails(q)
    \/ CreateRefetch(q)
    \/ \E t \in Types, u \in FaultUsers, d \in DocIds, its \in ItemInputs : StartUpdate(q, t, u, d, its)
    \/ UpdateFind(q)
    \/ UpdateDoc(q)
    \/ UpdateDelItems(q)
    \/ UpdateDelItemsFails(q)
    \/ UpdateInsItems(q)
    \/ UpdateInsItemsFails(q)
    \/ UpdateRefetch(q)
    \/ \E t \in Types, u \in FaultUsers, d \in DocIds : StartSubmit(q, t, u, d)
    \/ SubmitFind(q)
    \/ SubmitSetStatus(q)
    \/ SubmitNotify(q)
    \/ Finish(q)

NextFault == FaultStep("q1")

\* requests served one at a time, item writes failing at will
SpecFault == Init /\ [][NextFault]_vars

\* ------------------------------------------------------------ create only

\* one step of slot q in the runs where documents are only created, from
\* arrays of up to MaxWorkItems elements
CreateStep(q) ==
    \/ \E t \in Types, u \in Users, its \in WorkItemInputs : StartCreate(q, t, u, its)
    \/ CreateValidate(q)
    \/ CreateGenNumber(q)
    \/ CreateInsertDoc(q)
    \/ CreateInsertItems(q)
    \/ CreateRefetch(q)
    \/ Finish(q)

NextCreate == CreateStep("q1")

SpecCreate == Init /\ [][NextCreate]_vars

\* --------------------------------- interleaved approvals, designated role

\* two reviewers who both hold the role designated for a BAPP
PinReviewers == {"r1", SecondApprover}

\* one step of slot q in the runs where a BAPP is created, submitted, signed
\* and approved by reviewers of the designated role, requests interleaving
PinStep(q) ==
    \/ StartCreate(q, "bapp", ConcVendor, ConcItems)
    \/ CreateValidate(q)
    \/ CreateGenNumber(q)
    \/ CreateInsertDoc(q)
    \/ CreateInsertItems(q)
    \/ CreateRefetch(q)
    \/ \E d \in DocIds : StartSubmit(q, "bapp", ConcVendor, d)
    \/ SubmitFind(q)
    \/ SubmitSetStatus(q)
    \/ SubmitNotify(q)
    \/ \E u \in PinReviewers, d \in DocIds : StartUploadSignature(q, "bapp", u, d)
    \/ SignatureFind(q)
    \/ SignatureInsert(q)
    \/ \E u \in PinReviewers, d \in DocIds : StartApprove(q, "bapp", u, d)
    \/ ReviewFind(q)
    \/ ApproveHasApproved(q)
    \/ ApproveSigCheck(q)
    \/ ReviewCreateApproval(q)
    \/ ReviewUpdate(q)
    \/ ReviewNotify(q)
    \/ Finish(q)

NextPin == \E q \in Slots : PinStep(q)

SpecPin == Init /\ [][NextPin]_vars

\* ------------------------------------------------ reject, request-revision

\* rejectionReason / revisionReason in the runs of reviews: omitted, "x", " x"
ReviewReasons == {None, Some(<< "x" >>), Some(<< " ", "x" >>)}

\* one step of slot q in the runs where documents are created, submitted,
\* rejected and sent back for revision
ReviewStep(q) ==
    \/ \E t \in Types : StartCreate(q, t, ConcVendor, ConcItems)
    \/ CreateValidate(q)
    \/ CreateGenNumber(q)
    \/ CreateInsertDoc(q)
    \/ CreateInsertItems(q)
    \/ CreateRefetch(q)
    \/ \E t \in Types, d \in DocIds : StartSubmit(q, t, ConcVendor, d)
    \/ SubmitFind(q)
    \/ SubmitSetStatus(q)
    \/ SubmitNotify(q)
    \/ \E t \in Types, u \in Users, d \in DocIds, rsn \in ReviewReasons : StartReject(q, t, u, d, rsn)
    \/ \E t \in Types, u \in Users, d \in DocIds, rsn \in ReviewReasons : StartRevision(q, t, u, d, rsn)
    \/ ReviewValidate(q)
    \/ ReviewFind(q)
    \/ ReviewCreateApproval(q)
    \/ ReviewUpdate(q)
    \/ ReviewNotify(q)
    \/ Finish(q)

NextReview == ReviewStep("q1")

SpecReview == Init /\ [][NextReview]_vars

\* ------------------------------------------------------ interleaved creates

StartCreateConc(q, t) ==
    /\ nextId + CreatesInFlight <= MaxConcDocs
    /\ Arrive(q, NewRequest("create", t, ConcVendor, 0, ConcItems, None), "validate")

\* one step of slot q in the runs where only creates are served
CreateConcStep(q) ==
    \/ \E t \in Types : StartCreateConc(q, t)
    \/ CreateValidate(q)
    \/ CreateGenNumber(q)
    \/ CreateInsertDoc(q)
    \/ CreateInsertItems(q)
    \/ CreateRefetch(q)
    \/ Finish(q)

NextCreateConc == \E q \in Slots : CreateConcStep(q)

\* create requests of both slots interleaved store call by store call
SpecCreateConc == Init /\ [][NextCreateConc]_vars

\* ------------------------------------------------------- document numbers

\* an instant of the server's local calendar: year, month, day, ms of the day
Instant(y, m, d, ms) == << y, m, d, ms >>

\* a <= b on instants (timestamps compared by the store's gte / lte)
NotAfter(a, b) ==
    \/ a[1] < b[1]
    \/ a[1] = b[1] /\ a[2] < b[2]
    \/ a[1] = b[1] /\ a[2] = b[2] /\ a[3] < b[3]
    \/ a[1] = b[1] /\ a[2] = b[2] /\ a[3] = b[3] /\ a[4] <= b[4]

\* day 0 of the following month: the last day of month m of year y
LastDay(y, m) ==
    IF m = 2 THEN (IF y % 4 = 0 /\ (y % 100 # 0 \/ y % 400 = 0) THEN 29 ELSE 28)
    ELSE IF m \in {4, 6, 9, 11} THEN 30 ELSE 31

\* new Date(year, date.getMonth(), 1)
startOfMonth(now) == Instant(now[1], now[2], 1, 0)

\* new Date(year, date.getMonth() + 1, 0, 23, 59, 59): 23:59:59.000 of the last day
endOfMonth(now) == Instant(now[1], now[2], LastDay(now[1], now[2]), 86399000)

\* select count where created_at >= startOfMonth and created_at <= endOfMonth,
\* over a table given as << created_at, number of rows >> entries
RECURSIVE CountBetween(_, _, _)
CountBetween(rows, lo, hi) ==
    IF rows = << >> THEN 0
    ELSE (IF NotAfter(lo, Head(rows)[1]) /\ NotAfter(Head(rows)[1], hi)
          THEN Head(rows)[2] ELSE 0) + CountBetween(Tail(rows), lo, hi)

DigitChars == << "0", "1", "2", "3", "4", "5", "6", "7", "8", "9" >>

\* String(n) of a non-negative integer, as its characters
RECURSIVE NumString(_)
NumString(n) ==
    IF n < 10 THEN << DigitChars[n + 1] >>
    ELSE NumString(n \div 10) \o << DigitChars[(n % 10) + 1] >>

\* s.padStart(w, "0")
RECURSIVE padStart(_, _)
padStart(s, w) == IF Len(s) >= w THEN s ELSE padStart(<< "0" >> \o s, w)

Prefix(t) == IF t = "bapb" THEN << "B", "A", "P", "B" >> ELSE << "B", "A", "P", "P" >>

\* `PREFIX/${year}/${month}/${sequence}`
FormatNumber(t, now, count) ==
    Prefix(t) \o << "/" >> \o NumString(now[1]) \o << "/" >>
        \o padStart(NumString(now[2]), 2) \o << "/" >> \o padStart(NumString(count + 1), 4)

\* the server clock readings of the calls
Clocks ==
    {Instant(2025, 9, 30, 86399900), Instant(2025, 12, 15, 0), Instant(2026, 2, 28, 43200000)}

\* the tables the calls count: n rows created at the first instant of the
\* clock's month, some in its last second, some in an earlier month
Tables(now) ==
    {<< << startOfMonth(now), n >>,
        << Instant(now[1], now[2], LastDay(now[1], now[2]), 86399500), l >>,
        << Instant(2025, 8, 31, 86399000), o >> >> :
        n \in {0, 6, 9, 99, 999}, l \in {0, 1}, o \in {0, 3}}

\* a call of generateBAPBNumber / generateBAPPNumber with what it reads
NumberCall(t, now, rows) ==
    [op |-> "number", t |-> t, pc |-> "count", clock |-> now, rows |-> rows,
     count |-> 0, out |-> << >>]

InitNumber ==
    /\ docs = << >>
    /\ items = << >>
    /\ approvals = << >>
    /\ attachments = << >>
    /\ notifications = << >>
    /\ payment_logs = << >>
    /\ nextId = 1
    /\ resp = [q \in Slots |-> NoResp]
    /\ pre = NoSnap
    /\ \E t \in Types, now \in Clocks :
          \E rows \in Tables(now) :
              req = [q \in Slots |-> IF q = "q1" THEN NumberCall(t, now, rows) ELSE Idle]

\* the count query of the call
NumberCount(q) ==
    /\ At(q, "number", "count")
    /\ req' = [req EXCEPT ![q].count = CountBetween(req[q].rows, startOfMonth(req[q].clock),
                                                   endOfMonth(req[q].clock)),
                          ![q].pc = "format"]
    /\ UNCHANGED << storeVars, resp, pre >>

\* sequence = String((count || 0) + 1).padStart(4, "0"), and the return
NumberFormat(q) ==
    /\ At(q, "number", "format")
    /\ req' = [req EXCEPT ![q].out = FormatNumber(req[q].t, req[q].clock, req[q].count),
                          ![q].pc = "done"]
    /\ UNCHANGED << storeVars, resp, pre >>

NextNumber == NumberCount("q1") \/ NumberFormat("q1")

SpecNumber == InitNumber /\ [][NextNumber]_vars

\* ---------------------------------------------------- notification faults

\* notifyBAPBSubmitted / notifyBAPPSubmitted: the recipient query or the bulk
\* insert fails, the catch logs it, and submit answers 200 all the same
SubmitNotifyFails(q) ==
    /\ At(q, "submit", "notify")
    /\ resp' = [resp EXCEPT ![q] = Response(200, "none")]
    /\ req' = [req EXCEPT ![q].fault = "notify", ![q].pc = "done"]
    /\ UNCHANGED << storeVars, pre >>

\* notify...Approved / Rejected / RevisionRequired: createNotification throws,
\* the catch logs it, and the review answers 200 all the same
ReviewNotifyFails(q) ==
    /\ req[q].op \in {"approve", "reject", "revision"} /\ req[q].pc = "notify"
    /\ resp' = [resp EXCEPT ![q] = Response(200, req[q].warn)]
    /\ req' = [req EXCEPT ![q].fault = "notify", ![q].pc = "done"]
    /\ UNCHANGED << storeVars, pre >>

\* ----------------------------------------------------------------- payment

PaysInFlight == Cardinality({p \in Slots : req[p].op = "pay"})

\* paymentService.processBAPBPayment(bapbId, ...) / processBAPPPayment(bappId,
\* ...): a call of the service, which checks no caller
StartPay(q, t, d) ==
    /\ req[q] = Idle
    /\ Addressable(t, d)
    /\ Len(payment_logs) + PaysInFlight < MaxPayments
    /\ Len(notifications) + PaysInFlight < MaxNotifications
    /\ pre' = IF OthersIdle(q) THEN Snap ELSE NoSnap
    /\ req' = [req EXCEPT ![q] = [NewRequest("pay", t, Null, d, None, None) EXCEPT !.pc = "find"]]
    /\ UNCHANGED << storeVars, resp >>

\* findByIdWithRelations, 'BAPB not found', 'BAPB must be approved before
\* payment processing': the call throws (500) or goes on to the gateway
PayFind(q) ==
    /\ At(q, "pay", "find")
    /\ LET d == req[q].doc
       IN  IF ~Exists(req[q].t, d) THEN Respond(q, 500, "none")
           ELSE IF docs[d].status # "approved" THEN Respond(q, 500, "none")
           ELSE /\ req' = [req EXCEPT ![q].loc = docs[d], ![q].pc = "gateway"]
                /\ UNCHANGED resp
    /\ UNCHANGED << storeVars, pre >>

\* paymentResult.status of simulatePaymentGateway
GatewayStatuses == {"success", "failed"}

\* simulatePaymentGateway: success or failed, at random
PayGateway(q) ==
    /\ At(q, "pay", "gateway")
    /\ \E g \in GatewayStatuses : req' = [req EXCEPT ![q].gateway = g, ![q].pc = "log"]
    /\ UNCHANGED << storeVars, resp, pre >>

\* the row logPaymentAttempt inserts
PaymentLog(r) ==
    [type |-> r.t, doc |-> r.doc, vendor |-> r.loc.vendor_id, status |-> r.gateway]

\* after logPaymentAttempt: notifyPaymentProcessed when the gateway said
\* success, else the return of the result; code 200 stands for the returned
\* { success: true, data: { status: paymentResult.status, ... } }, code 500
\* for a thrown error
AfterLog(q, fault) ==
    IF req[q].gateway = "success"
    THEN /\ req' = [req EXCEPT ![q].fault = fault, ![q].pc = "notify"]
         /\ UNCHANGED resp
    ELSE /\ resp' = [resp EXCEPT ![q] = Response(200, "none")]
         /\ req' = [req EXCEPT ![q].fault = fault, ![q].pc = "done"]

\* a logPaymentAttempt that keeps one row per document, writing over the row
\* of an earlier attempt
PayLog_upsert(q) ==
    /\ At(q, "pay", "log")
    /\ payment_logs' =
          IF \E i \in 1..Len(payment_logs) : payment_logs[i].doc = req[q].doc
          THEN [i \in 1..Len(payment_logs) |->
                   IF payment_logs[i].doc = req[q].doc THEN PaymentLog(req[q]) ELSE payment_logs[i]]
          ELSE Append(payment_logs, PaymentLog(req[q]))
    /\ AfterLog(q, "none")
    /\ UNCHANGED << docs, items, approvals, attachments, notifications, nextId, pre >>

\* logPaymentAttempt: the insert into payment_logs
PayLog(q) ==
    /\ At(q, "pay", "log")
    /\ payment_logs' = Append(payment_logs, PaymentLog(req[q]))
    /\ AfterLog(q, "none")
    /\ UNCHANGED << docs, items, approvals, attachments, notifications, nextId, pre >>

\* logPaymentAttempt: the insert fails; its returned error is not read and a
\* thrown one is caught and logged, so the settlement goes on
PayLogFails(q) ==
    /\ At(q, "pay", "log")
    /\ AfterLog(q, "log")
    /\ UNCHANGED << storeVars, pre >>

\* notifyPaymentProcessed(vendor_id, ...), then the return of the result
PayNotify(q) ==
    /\ At(q, "pay", "notify")
    /\ notifications' = Append(notifications,
           [user |-> req[q].loc.vendor_id, type |-> "payment_processed", doc |-> req[q].doc])
    /\ Respond(q, 200, "none")
    /\ UNCHANGED << docs, items, approvals, attachments, payment_logs, nextId, pre >>

\* a failing notifyPaymentProcessed that lets its error out of the call
PayNotifyFails_throwing(q) ==
    /\ At(q, "pay", "notify")
    /\ resp' = [resp EXCEPT ![q] = Response(500, "none")]
    /\ req' = [req EXCEPT ![q].fault = IF req[q].fault = "none" THEN "notify" ELSE "log, notify",
                          ![q].pc = "done"]
    /\ UNCHANGED << storeVars, pre >>

\* notifyPaymentProcessed: createNotification throws, the catch logs it, and
\* the result is returned all the same
PayNotifyFails(q) ==
    /\ At(q, "pay", "notify")
    /\ resp' = [resp EXCEPT ![q] = Response(200, "none")]
    /\ req' = [req EXCEPT ![q].fault = IF req[q].fault = "none" THEN "notify" ELSE "log, notify",
                          ![q].pc = "done"]
    /\ UNCHANGED << storeVars, pre >>

\* the reviewer and the reason of the runs with settlements
PayReviewer == "r1"

PayReason == Some(<< "x" >>)

\* one step of slot q in the runs where a document is created, updated,
\* submitted, signed, reviewed and settled, and a notification or a payment
\* log may fail
PayStep(q) ==
    \/ \E t \in Types : StartCreate(q, t, ConcVendor, ConcItems)
    \/ CreateValidate(q)
    \/ CreateGenNumber(q)
    \/ CreateInsertDoc(q)
    \/ CreateInsertItems(q)
    \/ CreateRefetch(q)
    \/ \E t \in Types, d \in DocIds, its \in {None, ConcItems} : StartUpdate(q, t, ConcVendor, d, its)
    \/ UpdateFind(q)
    \/ UpdateDoc(q)
    \/ UpdateDocFails(q)
    \/ UpdateDelItems(q)
    \/ UpdateDelItemsFails(q)
    \/ UpdateInsItems(q)
    \/ UpdateInsItemsFails(q)
    \/ UpdateRefetch(q)
    \/ \E t \in Types, d \in DocIds : StartSubmit(q, t, ConcVendor, d)
    \/ SubmitFind(q)
    \/ SubmitSetStatus(q)
    \/ SubmitNotify(q)
    \/ SubmitNotifyFails(q)
    \/ \E d \in DocIds : StartUploadSignature(q, "bapp", PayReviewer, d)
    \/ SignatureFind(q)
    \/ SignatureInsert(q)
    \/ \E t \in Types, d \in DocIds : StartApprove(q, t, PayReviewer, d)
    \/ \E t \in Types, d \in DocIds : StartReject(q, t, PayReviewer, d, PayReason)
    \/ \E t \in Types, d \in DocIds : StartRevision(q, t, PayReviewer, d, PayReason)
    \/ ReviewValidate(q)
    \/ ReviewFind(q)
    \/ ApproveHasApproved(q)
    \/ ApproveSigCheck(q)
    \/ ReviewCreateApproval(q)
    \/ ReviewUpdate(q)
    \/ ReviewNotify(q)
    \/ ReviewNotifyFails(q)
    \/ \E t \in Types, d \in DocIds : StartPay(q, t, d)
    \/ PayFind(q)
    \/ PayGateway(q)
    \/ PayLog(q)
    \/ PayLogFails(q)
    \/ PayNotify(q)
    \/ PayNotifyFails(q)
    \/ Finish(q)

\* requests and settlements served one at a time, notifications and payment
\* logs failing at will
SpecPay == Init /\ [][PayStep("q1")]_vars

\* ------------------------------------------------------- payment readiness

\* a readiness check that reports the first blocker only
checkPaymentReadiness_firstOnly(t, d) ==
    IF ~Exists(t, d) THEN [ready |-> FALSE, blockers |-> << "Document does not exist" >>]
    ELSE IF docs[d].status # "approved"
         THEN [ready |-> FALSE, blockers |-> << "Document is not approved" >>]
    ELSE IF \E i \in 1..Len(payment_logs) :
                /\ payment_logs[i].type = t /\ payment_logs[i].doc = d
                /\ payment_logs[i].status = "success"
         THEN [ready |-> FALSE, blockers |-> << "Payment already processed for this document" >>]
    ELSE IF docs[d].vendor_id \notin Accounts \/ ~is_active(docs[d].vendor_id)
         THEN [ready |-> FALSE, blockers |-> << "Vendor account is inactive or not found" >>]
    ELSE [ready |-> TRUE, blockers |-> << >>]

\* checkPaymentReadiness(documentType, documentId): findById, the status
\* check, the query of payment_logs for status success, the vendor lookup
checkPaymentReadiness(t, d) ==
    IF ~Exists(t, d) THEN [ready |-> FALSE, blockers |-> << "Document does not exist" >>]
    ELSE LET existingPayments ==
                 {i \in 1..Len(payment_logs) :
                     /\ payment_logs[i].type = t /\ payment_logs[i].doc = d
                     /\ payment_logs[i].status = "success"}
             vendor == docs[d].vendor_id
             blockers ==
                 (IF docs[d].status # "approved"
                  THEN << "Document is not approved" >> ELSE << >>)
                 \o (IF existingPayments # {}
                     THEN << "Payment already processed for this document" >> ELSE << >>)
                 \o (IF vendor \notin Accounts \/ ~is_active(vendor)
                     THEN << "Vendor account is inactive or not found" >> ELSE << >>)
         IN  [ready |-> blockers = << >>, blockers |-> blockers]

\* the stores a readiness check is called on: one document of any status whose
\* vendor is active, deactivated or no longer in users, with the payment logs
\* that settlements of it (possible once it is approved) have written; the
\* call names that document or an id that no table holds
InitReady ==
    /\ items = << << >> >>
    /\ approvals = << >>
    /\ attachments = << >>
    /\ notifications = << >>
    /\ nextId = 2
    /\ resp = [q \in Slots |-> NoResp]
    /\ pre = NoSnap
    /\ \E t \in Types, st \in StatusEnum, v \in {ConcVendor, Deactivated, "gone"} :
          docs = << [NoDoc EXCEPT !.type = t, !.vendor_id = v, !.status = st, !.number = 1] >>
    /\ \E n \in 0..MaxPayments : \E sts \in [1..n -> GatewayStatuses] :
          /\ n > 0 => docs[1].status = "approved"
          /\ payment_logs = [i \in 1..n |->
                 [type |-> docs[1].type, doc |-> 1, vendor |-> docs[1].vendor_id, status |-> sts[i]]]
    /\ \E t \in Types, d \in 1..2 :
          /\ Addressable(t, d)
          /\ req = [q \in Slots |->
                 IF q = "q1"
                 THEN [op |-> "readiness", t |-> t, doc |-> d, pc |-> "call",
                       out |-> [ready |-> FALSE, blockers |-> << >>]]
                 ELSE Idle]

\* the call and its return value
ReadinessCall(q) ==
    /\ At(q, "readiness", "call")
    /\ req' = [req EXCEPT ![q].out = checkPaymentReadiness(req[q].t, req[q].doc),
                          ![q].pc = "done"]
    /\ UNCHANGED << storeVars, resp, pre >>

SpecReady == InitReady /\ [][ReadinessCall("q1")]_vars

\* ------------------------------------------- update and submit interleaved

\* one step of the runs where one client creates a document and updates it
\* with a non-empty array while another submits it, store call by store call
ReplaceStep ==
    \/ \E t \in Types : StartCreate("q1", t, ConcVendor, ConcItems)
    \/ CreateValidate("q1")
    \/ CreateGenNumber("q1")
    \/ CreateInsertDoc("q1")
    \/ CreateInsertItems("q1")
    \/ CreateRefetch("q1")
    \/ \E t \in Types, d \in DocIds, l \in ItemLists \ {<< >>} :
          StartUpdate("q1", t, ConcVendor, d, Some(l))
    \/ UpdateFind("q1")
    \/ UpdateDoc("q1")
    \/ UpdateDelItems("q1")
    \/ UpdateInsItems("q1")
    \/ UpdateRefetch("q1")
    \/ \E t \in Types, d \in DocIds : StartSubmit("q2", t, ConcVendor, d)
    \/ SubmitFind("q2")
    \/ SubmitSetStatus("q2")
    \/ SubmitNotify("q2")
    \/ \E q \in Slots : Finish(q)

SpecReplace == Init /\ [][ReplaceStep]_vars

\* ------------------------------------------------ duplicate-approval check

\* the stores hasUserApproved is called on by an approve request that has
\* passed its status check: one submitted document and up to MaxApprovals
\* approval records of it, written by requests served meanwhile
InitApproved ==
    /\ items = << ItemRows(ConcItems[1]) >>
    /\ attachments = << >>
    /\ notifications = << >>
    /\ payment_logs = << >>
    /\ nextId = 2
    /\ resp = [q \in Slots |-> NoResp]
    /\ pre = NoSnap
    /\ \E t \in Types :
          /\ docs = << [NewDoc(t, ConcVendor, 1, ConcItems[1]) EXCEPT !.status = "submitted"] >>
          /\ \E u \in ConcReviewers :
                req = [q \in Slots |->
                          IF q = "q1"
                          THEN [NewRequest("approve", t, u, 1, None, None) EXCEPT
                                    !.loc = docs[1], !.pc = "hasApproved"]
                          ELSE Idle]
    /\ \E n \in 0..MaxApprovals :
          approvals \in [1..n -> [doc : {1}, approver : ConcReviewers,
                                  action : {"approved", "rejected", "revision_required"}]]

SpecApproved == InitApproved /\ [][ApproveHasApproved("q1")]_vars

\* ------------------------------------------------------ creates and deletes

StartCreateSeq(q, t) ==
    /\ nextId <= MaxSeqDocs
    /\ Arrive(q, NewRequest("create", t, ConcVendor, 0, ConcItems, None), "validate")

\* create and delete requests of one vendor served one at a time, all within
\* one calendar month
SpecRenumber ==
    Init /\ [][\/ \E t \in Types : StartCreateSeq("q1", t)
               \/ CreateValidate("q1")
               \/ CreateGenNumber("q1")
               \/ CreateInsertDoc("q1")
               \/ CreateInsertItems("q1")
               \/ CreateRefetch("q1")
               \/ \E t \in Types, d \in 1..MaxSeqDocs : StartDelete("q1", t, ConcVendor, d)
               \/ DeleteFind("q1")
               \/ DeleteRow("q1")
               \/ Finish("q1")]_vars

\* ------------------------------------------------------------- properties

Done(q) == req[q].pc = "done"

\* slot q serves a request and no other request has run since it arrived
Alone(q) == req[q] # Idle /\ pre.valid

RefusalCodes == {400, 403, 404}

\* the store as the request of slot q found it holds its document
Found(q) == req[q].doc \in DOMAIN pre.docs

\* approved rows of (document, approver) in the store as the request found it
PriorApprovedRows(d, u) ==
    {i \in 1..Len(pre.approvals) :
        /\ pre.approvals[i].doc = d
        /\ pre.approvals[i].approver = u
        /\ pre.approvals[i].action = "approved"}

PriorSignatureRows(d, u) ==
    {i \in 1..Len(pre.attachments) :
        pre.attachments[i].doc = d /\ pre.attachments[i].uploaded_by = u}

\* << operation, status before, status after >> of the permitted status changes
StatusChanges ==
    {<< "submit", "draft", "submitted" >>,
     << "submit", "revision_required", "submitted" >>,
     << "update", "revision_required", "draft" >>,
     << "approve", "submitted", "approved" >>,
     << "approve", "in_review", "approved" >>,
     << "reject", "submitted", "rejected" >>,
     << "reject", "in_review", "rejected" >>,
     << "revision", "submitted", "revision_required" >>,
     << "revision", "in_review", "revision_required" >>}

TerminalStatuses == {"approved", "rejected"}

\* C2: while and after a lone update, submit, delete, approve, reject or
\* request-revision request on a document it found approved or rejected, the
\* document keeps its status, rejection_reason and line items, and the
\* request's answer is a refusal
C2_TerminalRefused ==
    \A q \in Slots :
        LET r == req[q]
            d == r.doc
        IN  (/\ Alone(q)
             /\ r.op \in {"update", "submit", "delete", "approve", "approveMain", "reject", "revision"}
             /\ Found(q)
             /\ pre.docs[d].status \in TerminalStatuses)
            => /\ d \in DOMAIN docs
               /\ docs[d].status = pre.docs[d].status
               /\ docs[d].rejection_reason = pre.docs[d].rejection_reason
               /\ items[d] = pre.items[d]
               /\ Done(q) => resp[q].code \in RefusalCodes

\* C2 witness: a reviewer's reject with a reason, on an approved document,
\* has been answered 400
C2_Witness ==
    \E q \in Slots :
        /\ Alone(q) /\ Done(q) /\ Found(q)
        /\ req[q].op = "reject"
        /\ req[q].reason = Some(<< "x" >>)
        /\ Role(req[q].user) \in ReviewerRoles(req[q].t)
        /\ pre.docs[req[q].doc].status = "approved"
        /\ resp[q].code = 400

\* C3: while and after a lone approve request of an approver whose approved
\* record for the document is already stored, the approval records and the
\* document's status are as the request found them, and its answer is 400
C3_SecondApproveRefused ==
    \A q \in Slots :
        LET r == req[q]
            d == r.doc
        IN  (/\ Alone(q)
             /\ r.op \in {"approve", "approveMain"}
             /\ Found(q)
             /\ PriorApprovedRows(d, r.user) # {})
            => /\ approvals = pre.approvals
               /\ d \in DOMAIN docs
               /\ docs[d].status = pre.docs[d].status
               /\ Done(q) => resp[q].code = 400

\* C3 witness: the second approve of the same approver has been answered 400
C3_Witness ==
    \E q \in Slots :
        /\ Alone(q) /\ Done(q) /\ Found(q)
        /\ req[q].op = "approve"
        /\ PriorApprovedRows(req[q].doc, req[q].user) # {}
        /\ resp[q].code = 400

\* C4: no (document, approver) has more than one approved record, in any state
\* of the interleaved runs
C4_AtMostOneApproved ==
    \A d \in DocIds, u \in Users : Cardinality(ApprovedRows(d, u)) <= 1

\* C4 witness: two approve requests of one approver for one document are in
\* flight at once, both past the duplicate-approval check
C4_Witness ==
    /\ req["q1"].op = "approve" /\ req["q2"].op = "approve"
    /\ req["q1"].user = req["q2"].user
    /\ req["q1"].doc = req["q2"].doc
    /\ req["q1"].pc = "createApproval" /\ req["q2"].pc = "createApproval"

\* C5: a lone submit request answered 200 found its document in draft or
\* revision_required, owned by the caller and holding at least one line item,
\* and leaves it submitted; a lone submit request that found its document
\* without line items is never answered 200 and never changes the status
C5_SubmitPreconditions ==
    \A q \in Slots :
        LET r == req[q]
            d == r.doc
        IN  (Alone(q) /\ r.op = "submit") =>
               /\ (Done(q) /\ resp[q].code = 200) =>
                     /\ Found(q)
                     /\ pre.docs[d].status \in {"draft", "revision_required"}
                     /\ pre.docs[d].vendor_id = r.user
                     /\ Len(pre.items[d]) >= 1
                     /\ d \in DOMAIN docs
                     /\ docs[d].status = "submitted"
               /\ (Found(q) /\ Len(pre.items[d]) = 0) =>
                     /\ d \in DOMAIN docs
                     /\ docs[d].status = pre.docs[d].status
                     /\ Done(q) => resp[q].code \in RefusalCodes

\* C5 witness: the owner's submit of a draft without line items has been
\* answered 400
C5_Witness ==
    \E q \in Slots :
        /\ Alone(q) /\ Done(q) /\ Found(q)
        /\ req[q].op = "submit"
        /\ pre.docs[req[q].doc].vendor_id = req[q].user
        /\ pre.docs[req[q].doc].status = "draft"
        /\ Len(pre.items[req[q].doc]) = 0
        /\ resp[q].code = 400

\* the request of slot q is an approve, by either BAPB controller or the BAPP
\* one, of a reviewer eligible for the document's type, who found the document
\* submitted, had not approved it and had uploaded no signature for it
UnsignedApprove(q) ==
    /\ Alone(q) /\ Found(q)
    /\ req[q].op \in {"approve", "approveMain"}
    /\ Role(req[q].user) \in ReviewerRoles(req[q].t)
    /\ pre.docs[req[q].doc].status = "submitted"
    /\ PriorApprovedRows(req[q].doc, req[q].user) = {}
    /\ PriorSignatureRows(req[q].doc, req[q].user) = {}

\* C6: a lone approve by an eligible reviewer without a signature, on a
\* submitted document the reviewer has not approved: for a BAPP it writes no
\* approval record, keeps the status and is answered 400; for a BAPB it is
\* answered 200 with a warning, one approved record of the caller added and
\* the status approved
C6_UnsignedApprove ==
    \A q \in Slots :
        LET r == req[q]
            d == r.doc
        IN  UnsignedApprove(q) =>
               IF r.t = "bapp"
               THEN /\ approvals = pre.approvals
                    /\ d \in DOMAIN docs
                    /\ docs[d].status = "submitted"
                    /\ Done(q) => resp[q].code = 400
               ELSE Done(q) =>
                    /\ resp[q].code = 200
                    /\ resp[q].warn # "none"
                    /\ approvals = Append(pre.approvals,
                           [doc |-> d, approver |-> r.user, action |-> "approved"])
                    /\ d \in DOMAIN docs
                    /\ docs[d].status = "approved"

\* C6 witness: the backend-main approveBAPB has answered such a request
C6_Witness ==
    \E q \in Slots :
        /\ UnsignedApprove(q) /\ Done(q)
        /\ req[q].op = "approveMain"
        /\ resp[q].code = 500

\* the reasons that count as not given: omitted, "", " "
BlankReasons == {None, Some(<< >>), Some(<< " " >>)}

\* C7: while and after a lone reject or request-revision request whose reason
\* is omitted, empty or blank, the approval records and every document's
\* status and rejection_reason are as the request found them, and its answer
\* is a refusal
C7_BlankReasonRefused ==
    \A q \in Slots :
        (/\ Alone(q)
         /\ req[q].op \in {"reject", "revision"}
         /\ req[q].reason \in BlankReasons)
        => /\ approvals = pre.approvals
           /\ docs = pre.docs
           /\ Done(q) => resp[q].code \in RefusalCodes

\* C7 witness: a reviewer's reject with the reason " " on a submitted document
\* has been answered 400
C7_Witness ==
    \E q \in Slots :
        /\ Alone(q) /\ Done(q) /\ Found(q)
        /\ req[q].op = "reject"
        /\ req[q].reason = Some(<< " " >>)
        /\ Role(req[q].user) \in ReviewerRoles(req[q].t)
        /\ pre.docs[req[q].doc].status = "submitted"
        /\ resp[q].code = 400

\* C8: during a lone update request on a document found revision_required the
\* row is either as found or draft with rejection_reason null, never draft
\* with the old reason; once answered 200 it is draft with rejection_reason
\* null; a lone update answered 200 on a document found draft leaves it draft
C8_UpdateResetsRevision ==
    \A q \in Slots :
        LET r == req[q]
            d == r.doc
        IN  (Alone(q) /\ r.op = "update" /\ Found(q)) =>
               /\ pre.docs[d].status = "revision_required" =>
                     /\ d \in DOMAIN docs
                     /\ \/ docs[d] = pre.docs[d]
                        \/ docs[d].status = "draft" /\ docs[d].rejection_reason = None
                     /\ (Done(q) /\ resp[q].code = 200) =>
                           docs[d].status = "draft" /\ docs[d].rejection_reason = None
               /\ (pre.docs[d].status = "draft" /\ Done(q) /\ resp[q].code = 200) =>
                     d \in DOMAIN docs /\ docs[d].status = "draft"

\* C8 witness: an update of a revision_required document, which carried a
\* rejection_reason, has been answered 200
C8_Witness ==
    \E q \in Slots :
        /\ Alone(q) /\ Done(q) /\ Found(q)
        /\ req[q].op = "update"
        /\ pre.docs[req[q].doc].status = "revision_required"
        /\ pre.docs[req[q].doc].rejection_reason # None
        /\ resp[q].code = 200

\* C9: while and after a lone delete request on a document found in a status
\* other than draft, the document and its line items are stored as found and
\* the answer is a refusal; so a document a delete request removed was draft
C9_DeleteOnlyDraft ==
    \A q \in Slots :
        LET r == req[q]
            d == r.doc
        IN  (Alone(q) /\ r.op = "delete" /\ Found(q)) =>
               /\ pre.docs[d].status # "draft" =>
                     /\ d \in DOMAIN docs
                     /\ docs[d] = pre.docs[d]
                     /\ items[d] = pre.items[d]
                     /\ Done(q) => resp[q].code \in RefusalCodes
               /\ d \notin DOMAIN docs => pre.docs[d].status = "draft"

\* C9 witness: the owner's delete of a revision_required document has been
\* answered 400
C9_Witness ==
    \E q \in Slots :
        /\ Alone(q) /\ Done(q) /\ Found(q)
        /\ req[q].op = "delete"
        /\ pre.docs[req[q].doc].vendor_id = req[q].user
        /\ pre.docs[req[q].doc].status = "revision_required"
        /\ resp[q].code = 400

\* C10: a lone submit, approve, reject, request-revision, update or delete
\* request answered with a refusal (400, 403, 404) has written nothing:
\* documents, line items, approval records, attachments and notifications are
\* as the request found them
C10_RefusedWritesNothing ==
    \A q \in Slots :
        (/\ Alone(q) /\ Done(q)
         /\ req[q].op \in {"submit", "approve", "approveMain", "reject", "revision", "update", "delete"}
         /\ resp[q].code \in RefusalCodes)
        => /\ docs = pre.docs
           /\ items = pre.items
           /\ approvals = pre.approvals
           /\ attachments = pre.attachments
           /\ notifications = pre.notifications

\* C10 witness: a BAPP approve of an eligible reviewer without a signature has
\* been refused
C10_Witness ==
    \E q \in Slots :
        /\ UnsignedApprove(q) /\ Done(q)
        /\ req[q].op = "approve"
        /\ req[q].t = "bapp"
        /\ resp[q].code = 400

RECURSIVE SumSeq(_)
SumSeq(l) == IF l = << >> THEN 0 ELSE Head(l) + SumSeq(Tail(l))

\* tp (in hundredths) is the mean of the rows' actual_progress rounded to two
\* decimals: no further from the mean than half a hundredth
IsRoundedMean(tp, rows) ==
    LET n == Len(rows)
        e == 100 * SumSeq(rows) - tp * n
    IN  n > 0 /\ 2 * e <= n /\ -2 * e <= n

\* C12: a create answered 201 had an array of n >= 1 items and left a draft
\* document with exactly n item rows and, for a BAPP, total_progress equal to
\* the mean of the rows' actual_progress rounded to two decimals; a create
\* whose item array is missing or empty is refused with nothing written
C12_SuccessfulCreate ==
    \A q \in Slots :
        (Alone(q) /\ req[q].op = "create" /\ Done(q)) =>
            /\ resp[q].code = 201 =>
                  /\ ~ItemsMissing(req[q].items)
                  /\ req[q].doc \in DOMAIN docs
                  /\ docs[req[q].doc].status = "draft"
                  /\ Len(items[req[q].doc]) = Len(req[q].items[1])
                  /\ req[q].t = "bapp" =>
                        IsRoundedMean(docs[req[q].doc].total_progress, items[req[q].doc])
            /\ ItemsMissing(req[q].items) =>
                  /\ resp[q].code \in RefusalCodes
                  /\ docs = pre.docs /\ items = pre.items

\* C12 witness: a BAPP created from three items whose mean needs rounding
\* (40, 40, 60: 46.67)
C12_Witness ==
    \E q \in Slots :
        /\ Alone(q) /\ req[q].op = "create" /\ req[q].t = "bapp" /\ Done(q)
        /\ resp[q].code = 201
        /\ items[req[q].doc] = << 40, 40, 60 >>
        /\ docs[req[q].doc].total_progress = 4667

\* C13: after an update answered 200, the document's line items are those it
\* had when the request arrived if the body had no item array, and exactly
\* the rows of the array if it had one (the empty array leaving none)
C13_UpdateReplacesItems ==
    \A q \in Slots :
        (Alone(q) /\ req[q].op = "update" /\ Done(q) /\ resp[q].code = 200) =>
            /\ Found(q)
            /\ items[req[q].doc] =
                  IF req[q].items = None THEN pre.items[req[q].doc]
                  ELSE ItemRows(req[q].items[1])

\* C13 witness: an update with another item replaced the item the document had
C13_Witness ==
    \E q \in Slots :
        /\ Alone(q) /\ req[q].op = "update" /\ Done(q) /\ resp[q].code = 200
        /\ pre.items[req[q].doc] = << 40 >>
        /\ req[q].items = Some(<< Item(60, 0) >>)
        /\ items[req[q].doc] = << 60 >>

\* C14: an update whose insert of the replacement items fails is answered
\* with an error (500) and leaves the document with zero line items, the old
\* ones not restored; and a submit of a document found with zero line items
\* changes nothing and is refused, while a submit is only ever answered 200
\* for a document that had items
C14_FailedReplaceLosesItems ==
    \A q \in Slots :
        /\ (Alone(q) /\ req[q].op = "update" /\ req[q].fault = "insItems") =>
              /\ Done(q) /\ resp[q].code = 500
              /\ items[req[q].doc] = << >>
        /\ (Alone(q) /\ req[q].op = "submit" /\ Found(q)
            /\ pre.items[req[q].doc] = << >>) =>
              /\ docs = pre.docs
              /\ Done(q) => resp[q].code \in RefusalCodes
        /\ (Alone(q) /\ req[q].op = "submit" /\ Done(q) /\ resp[q].code = 200) =>
              pre.items[req[q].doc] # << >>

\* C14 witness: the insert of an update's replacement items failed on a
\* document that had an item, and the document has none now
C14_Witness ==
    \E q \in Slots :
        /\ Alone(q) /\ req[q].op = "update" /\ req[q].fault = "insItems"
        /\ Done(q) /\ resp[q].code = 500
        /\ pre.items[req[q].doc] # << >>
        /\ items[req[q].doc] = << >>

\* C15: in every state of the runs with requests served one at a time, a
\* document whose rejection_reason is not null is rejected or
\* revision_required
C15_ReasonOnlyWhenRejected ==
    \A d \in DOMAIN docs :
        docs[d].rejection_reason # None =>
            docs[d].status \in {"rejected", "revision_required"}

\* C15 witness: a submit of a document found revision_required with a reason
\* was answered 200
C15_Witness ==
    \E q \in Slots :
        /\ Alone(q) /\ req[q].op = "submit" /\ Done(q) /\ resp[q].code = 200
        /\ pre.docs[req[q].doc].status = "revision_required"
        /\ pre.docs[req[q].doc].rejection_reason # None
        /\ docs[req[q].doc].status = "submitted"

\* rows of the table created in the calendar month of the clock
RECURSIVE CountInMonth(_, _)
CountInMonth(rows, now) ==
    IF rows = << >> THEN 0
    ELSE (IF Head(rows)[1][1] = now[1] /\ Head(rows)[1][2] = now[2] THEN Head(rows)[2] ELSE 0)
         + CountInMonth(Tail(rows), now)

\* the number a string of digit characters denotes
RECURSIVE DigitsValue(_)
DigitsValue(s) ==
    IF s = << >> THEN 0
    ELSE 10 * DigitsValue(SubSeq(s, 1, Len(s) - 1))
         + (CHOOSE v \in 0..9 : DigitChars[v + 1] = s[Len(s)])

\* C16: the number returned is PREFIX/YYYY/MM/NNNN: the type's prefix, the
\* four digits of the year, the two digits of the month, and four digits
\* denoting one more than the number of rows created in the clock's calendar
\* month
C16_NumberFormat ==
    \A q \in Slots :
        (req[q].op = "number" /\ req[q].pc = "done") =>
            LET out == req[q].out
                now == req[q].clock
            IN  /\ Len(out) = 17
                /\ SubSeq(out, 1, 4) = Prefix(req[q].t)
                /\ out[5] = "/" /\ out[10] = "/" /\ out[13] = "/"
                /\ DigitsValue(SubSeq(out, 6, 9)) = now[1]
                /\ DigitsValue(SubSeq(out, 11, 12)) = now[2]
                /\ DigitsValue(SubSeq(out, 14, 17)) = CountInMonth(req[q].rows, now) + 1

\* C16 witness: with six BAPB rows in the month, all counted, the call
\* returned a number ending in 0007
C16_Witness ==
    \E q \in Slots :
        /\ req[q].op = "number" /\ req[q].pc = "done" /\ req[q].t = "bapb"
        /\ CountInMonth(req[q].rows, req[q].clock) = 6
        /\ req[q].count = 6
        /\ req[q].out = << "B", "A", "P", "B", "/", "2", "0", "2", "5", "/", "0", "9", "/",
                           "0", "0", "0", "7" >>

\* C17: with creates interleaved, the row a create has inserted carries the
\* sequence its handler computed from the count it read, whatever other rows
\* were inserted between the count and the insert; two creates that read one
\* count therefore insert one number twice
C17_InsertKeepsReadCount ==
    \A q \in Slots :
        (req[q].op = "create" /\ req[q].pc \in {"insertItems", "refetch", "done"}
         /\ req[q].doc \in DOMAIN docs) =>
            docs[req[q].doc].number = req[q].num

\* C17 witness: two documents of one type share a number
C17_Witness ==
    \E d, e \in DOMAIN docs :
        /\ d # e
        /\ docs[d].type = docs[e].type
        /\ docs[d].number = docs[e].number

\* C18: when approve requests interleave, the approved records of one
\* document all come from one reviewer: of the approvals of two different
\* reviewers at most one persists
C18_OneApprovalPersists ==
    \A d \in DOMAIN docs :
        Cardinality({approvals[i].approver :
                        i \in {j \in 1..Len(approvals) :
                                  approvals[j].doc = d /\ approvals[j].action = "approved"}}) <= 1

\* C18 witness: the approve requests of two different reviewers for one
\* document have both passed the hasApproved check, and no approval record
\* has been written yet
C18_Witness ==
    /\ req["q1"].op = "approve" /\ req["q2"].op = "approve"
    /\ req["q1"].doc = req["q2"].doc
    /\ req["q1"].user # req["q2"].user
    /\ req["q1"].pc \in {"sigCheck", "createApproval"}
    /\ req["q2"].pc \in {"sigCheck", "createApproval"}
    /\ approvals = << >>

\* C19: the primary-reviewer field is null until an approval of its holder is
\* recorded; a lone approve answered 200 leaves it the caller exactly when it
\* was found null and the caller holds the designated role, and as found
\* otherwise; and no step, of interleaved approve requests either, changes a
\* primary-reviewer field that is not null
C19_PrimaryPinned ==
    /\ [](\A d \in DOMAIN docs :
            docs[d].primary # Null =>
                \E i \in 1..Len(approvals) :
                    /\ approvals[i].doc = d
                    /\ approvals[i].approver = docs[d].primary
                    /\ approvals[i].action = "approved")
    /\ [](\A q \in Slots :
            (Alone(q) /\ req[q].op = "approve" /\ Done(q) /\ resp[q].code = 200) =>
                docs[req[q].doc].primary =
                    IF pre.docs[req[q].doc].primary = Null
                       /\ Role(req[q].user) = PrimaryRole(req[q].t)
                    THEN req[q].user
                    ELSE pre.docs[req[q].doc].primary)
    /\ [][\A d \in DOMAIN docs :
            (docs[d].primary # Null /\ d \in DOMAIN docs') =>
                docs'[d].primary = docs[d].primary]_vars

\* C19 witness: two approve requests of holders of the designated role are in
\* flight for one document, both having read it with no primary reviewer, and
\* the first has pinned itself
C19_Witness ==
    \E q, p \in Slots :
        /\ q # p
        /\ req[q].op = "approve" /\ req[p].op = "approve"
        /\ req[q].doc = req[p].doc
        /\ req[q].user # req[p].user
        /\ req[q].loc.primary = Null /\ req[p].loc.primary = Null
        /\ req[p].pc = "update"
        /\ docs[req[q].doc].primary = req[q].user

\* C20: a reject answered 200 found the document submitted or in_review, came
\* from an eligible reviewer with a non-blank reason, appended exactly one
\* approval record (the document, the caller, rejected), and left the status
\* rejected and rejection_reason the reason as given; a request-revision
\* answered 200 likewise, with revision_required
C20_RejectAndRevisionEffects ==
    \A q \in Slots :
        (Alone(q) /\ req[q].op \in {"reject", "revision"} /\ Done(q) /\ resp[q].code = 200) =>
            LET d == req[q].doc
                a == IF req[q].op = "reject" THEN "rejected" ELSE "revision_required"
            IN  /\ Found(q)
                /\ pre.docs[d].status \in {"submitted", "in_review"}
                /\ Role(req[q].user) \in ReviewerRoles(req[q].t)
                /\ req[q].reason # None /\ Trim(req[q].reason[1]) # << >>
                /\ approvals = Append(pre.approvals,
                                      [doc |-> d, approver |-> req[q].user, action |-> a])
                /\ docs[d].status = a
                /\ docs[d].rejection_reason = req[q].reason

\* C20 witness: a reject with the reason " x" was answered 200
C20_Witness ==
    \E q \in Slots :
        /\ Alone(q) /\ req[q].op = "reject" /\ Done(q) /\ resp[q].code = 200
        /\ req[q].reason = Some(<< " ", "x" >>)
        /\ docs[req[q].doc].status = "rejected"

\* the approval row a review request of slot q inserts
ReviewRecord(q) ==
    [doc |-> req[q].doc, approver |-> req[q].user, action |-> ActionOf(req[q].op)]

\* C21: when the notification of a submit, approve, reject, request-revision
\* or successful settlement fails and nothing else does, the operation still
\* reports success, and what it wrote before the notification stays: the
\* submitted status, the approval row and the reviewed status, the payment log.
C21_NotifyFailureSwallowed ==
    \A q \in Slots :
        (Done(q) /\ Alone(q) /\ req[q].fault = "notify") =>
            /\ resp[q].code = 200
            /\ notifications = pre.notifications
            /\ req[q].op \in {"submit", "approve", "reject", "revision", "pay"}
            /\ req[q].op = "submit" =>
                  docs = [pre.docs EXCEPT ![req[q].doc].status = "submitted"]
            /\ req[q].op \in {"approve", "reject", "revision"} =>
                  /\ approvals = Append(pre.approvals, ReviewRecord(q))
                  /\ docs[req[q].doc].status = ActionOf(req[q].op)
            /\ req[q].op = "pay" =>
                  payment_logs = Append(pre.payment_logs, PaymentLog(req[q]))

\* C21 witness: a settlement whose gateway said success wrote its payment log,
\* failed to notify the vendor, and returned its result
C21_Witness ==
    \E q \in Slots :
        /\ Done(q) /\ Alone(q) /\ req[q].op = "pay" /\ req[q].fault = "notify"
        /\ req[q].gateway = "success" /\ resp[q].code = 200
        /\ Len(payment_logs) = Len(pre.payment_logs) + 1
        /\ notifications = pre.notifications

\* the notification rows added since the request of the snapshot arrived
AddedNotifications ==
    SubSeq(notifications, Len(pre.notifications) + 1, Len(notifications))

C23_Readiness ==
    \A q \in Slots :
        (req[q] # Idle /\ req[q].op = "readiness" /\ Done(q) /\ req[q].doc \in DOMAIN docs) =>
            LET d == req[q].doc
                out == req[q].out
                approved == docs[d].status = "approved"
                unpaid == \A i \in 1..Len(payment_logs) :
                              payment_logs[i].doc = d => payment_logs[i].status # "success"
                vendorOk == docs[d].vendor_id \in Accounts /\ is_active(docs[d].vendor_id)
                violated == (IF approved THEN 0 ELSE 1) + (IF unpaid THEN 0 ELSE 1)
                                + (IF vendorOk THEN 0 ELSE 1)
                Has(b) == \E i \in 1..Len(out.blockers) : out.blockers[i] = b
            IN  /\ out.ready <=> (approved /\ unpaid /\ vendorOk)
                /\ Len(out.blockers) = violated
                /\ Has("Document is not approved") <=> ~approved
                /\ Has("Payment already processed for this document") <=> ~unpaid
                /\ Has("Vendor account is inactive or not found") <=> ~vendorOk

\* C23 witness: the check of an approved document that has a failed and a
\* successful payment log and a deactivated vendor returned two blockers
C23_Witness ==
    \E q \in Slots :
        /\ req[q] # Idle /\ req[q].op = "readiness" /\ Done(q)
        /\ req[q].doc \in DOMAIN docs
        /\ docs[req[q].doc].status = "approved"
        /\ docs[req[q].doc].vendor_id = Deactivated
        /\ Len(payment_logs) = 2
        /\ payment_logs[1].status = "failed" /\ payment_logs[2].status = "success"
        /\ ~req[q].out.ready /\ Len(req[q].out.blockers) = 2

\* C24: in every settlement, once the gateway has answered and the call has
\* gone past its logging step, the payment log holds one new row with the
\* gateway's status, so the row is there before a payment_processed
\* notification is written; a notification is written only when the gateway
\* said success; a failed attempt ends with its log row and no notification.
C24_LogBeforeNotification ==
    \A q \in Slots :
        (Alone(q) /\ req[q].op = "pay") =>
            /\ req[q].pc \in {"notify", "done"} /\ req[q].gateway # "none" =>
                  payment_logs = Append(pre.payment_logs, PaymentLog(req[q]))
            /\ notifications # pre.notifications =>
                  /\ req[q].gateway = "success"
                  /\ Done(q)
                  /\ notifications = Append(pre.notifications,
                         [user |-> req[q].loc.vendor_id, type |-> "payment_processed",
                          doc |-> req[q].doc])
            /\ Done(q) /\ req[q].gateway = "failed" => notifications = pre.notifications

\* C24 witness: a settlement whose gateway said success has notified the
\* vendor and returned, and the payment log holds no row of it
C24_Witness ==
    \E q \in Slots :
        /\ Alone(q) /\ req[q].op = "pay" /\ Done(q) /\ resp[q].code = 200
        /\ req[q].gateway = "success" /\ req[q].fault = "log"
        /\ Len(notifications) = Len(pre.notifications) + 1
        /\ notifications[Len(notifications)].type = "payment_processed"
        /\ payment_logs = pre.payment_logs

\* rows is old with zero or more rows added at its end
Extends(rows, old) ==
    Len(rows) >= Len(old) /\ SubSeq(rows, 1, Len(old)) = old

\* C25: no step of a create, submit, signature upload, approve, reject,
\* request-revision or settlement changes or removes an approval record or a
\* payment log that exists: each of the two tables keeps its rows, fields
\* included, and only gets rows added at its end.
C25_AppendOnly ==
    [][Extends(approvals', approvals) /\ Extends(payment_logs', payment_logs)]_vars

\* C25 witness: a document sent back for revision, then approved, then settled
\* twice (a failed attempt, then a successful one): two approval records and
\* two payment logs, each as it was written
C25_Witness ==
    /\ Len(approvals) = 2 /\ Len(payment_logs) = 2
    /\ approvals[1].action = "revision_required" /\ approvals[2].action = "approved"
    /\ payment_logs[1].status = "failed" /\ payment_logs[2].status = "success"

\* C26: a step of an update, submit, approve, reject or request-revision (or
\* of any other request but the insert of a create) leaves vendor_id and the
\* document number of every existing document as they are; the insert of a
\* create is the step that sets them.
C26_VendorAndNumberFixed ==
    [][\A d \in DOMAIN docs' :
          IF d \in DOMAIN docs
          THEN /\ docs'[d].vendor_id = docs[d].vendor_id
               /\ docs'[d].number = docs[d].number
          ELSE \E q \in Slots :
                  /\ req[q].op = "create" /\ req'[q].doc = d
                  /\ docs'[d].vendor_id = req[q].user
                  /\ docs'[d].number = req[q].num]_vars

\* C26 witness: a document that was sent back for revision, updated,
\* submitted again and approved still carries its creator and its number
C26_Witness ==
    \E d \in DOMAIN docs :
        /\ docs[d].status = "approved" /\ docs[d].primary # Null
        /\ Len(approvals) = 2
        /\ approvals[1].doc = d /\ approvals[1].action = "revision_required"
        /\ approvals[2].doc = d /\ approvals[2].action = "approved"
        /\ docs[d].rejection_reason = None
        /\ docs[d].vendor_id = ConcVendor /\ docs[d].number = 1

\* slot q's submit reads document d with its items in this step while an
\* update of d that replaces the items is being served
ReadsDuringReplace(q, d) ==
    /\ At(q, "submit", "find") /\ req'[q].pc # "find"
    /\ req[q].doc = d /\ d \in DOMAIN docs
    /\ \E p \in Slots \ {q} :
          req[p].op = "update" /\ req[p].doc = d /\ req[p].pc \notin {"find", "done"}

\* the item sets that a create or an update with a non-empty array writes
CompleteItemSets == {ItemRows(l) : l \in ItemLists \ {<< >>}}

C28_HasApprovedIffExists ==
    \A q \in Slots :
        (req[q] # Idle /\ req[q].op = "approve" /\ req[q].pc \in {"sigCheck", "done"}) =>
            ((Done(q) /\ resp[q].code = 400)
                <=> \E i \in 1..Len(approvals) :
                        /\ approvals[i].doc = req[q].doc
                        /\ approvals[i].approver = req[q].user
                        /\ approvals[i].action = "approved")

\* C28 witness: the store holds two approved records of the caller for the
\* document, and the check has let the approve request through
C28_Witness ==
    \E q \in Slots :
        /\ req[q] # Idle /\ req[q].op = "approve" /\ req[q].pc = "sigCheck"
        /\ Len(approvals) = 2
        /\ \A i \in 1..2 :
              /\ approvals[i].doc = req[q].doc
              /\ approvals[i].approver = req[q].user
              /\ approvals[i].action = "approved"

\* C29: a lone BAPP approve by an eligible reviewer who found the document
\* submitted and had not approved it is refused with 400 exactly when the
\* reviewer had uploaded no signature for the document; with one signature or
\* several it goes on, records the approval and is answered 200.
C29_SignedApprovePasses ==
    \A q \in Slots :
        (/\ Alone(q) /\ Found(q) /\ Done(q)
         /\ req[q].op = "approve" /\ req[q].t = "bapp"
         /\ Role(req[q].user) \in ReviewerRoles("bapp")
         /\ pre.docs[req[q].doc].status = "submitted"
         /\ PriorApprovedRows(req[q].doc, req[q].user) = {}) =>
            /\ resp[q].code = 400 <=> PriorSignatureRows(req[q].doc, req[q].user) = {}
            /\ PriorSignatureRows(req[q].doc, req[q].user) # {} =>
                  /\ resp[q].code = 200
                  /\ Len(approvals) = Len(pre.approvals) + 1

\* C29 witness: the reviewer had uploaded two signatures for the submitted
\* BAPP, and the approve was refused with 400, nothing written
C29_Witness ==
    \E q \in Slots :
        /\ Alone(q) /\ Found(q) /\ Done(q)
        /\ req[q].op = "approve" /\ req[q].t = "bapp"
        /\ Role(req[q].user) \in ReviewerRoles("bapp")
        /\ pre.docs[req[q].doc].status = "submitted"
        /\ Cardinality(PriorSignatureRows(req[q].doc, req[q].user)) = 2
        /\ resp[q].code = 400
        /\ approvals = pre.approvals /\ docs = pre.docs

\* C30: whenever no request is in the middle of its store calls, every BAPP in
\* the store carries as total_progress the mean of the actual_progress of its
\* stored work items, rounded to two decimals, and 0 when it has none;
\* whether the creates and updates before ended with success or with an error.
C30_ProgressMatchesItems ==
    (\A q \in Slots : req[q] = Idle \/ Done(q)) =>
        \A d \in DOMAIN docs :
            docs[d].type = "bapp" =>
                IF Len(items[d]) = 0 THEN docs[d].total_progress = 0
                ELSE IsRoundedMean(docs[d].total_progress, items[d])

\* C30 witness: an update of a BAPP was answered 500 after its insert of the
\* replacement work items failed; the document has no work items and still
\* carries the total_progress of the deleted ones
C30_Witness ==
    \E q \in Slots :
        /\ Alone(q) /\ Done(q) /\ req[q].op = "update" /\ req[q].t = "bapp"
        /\ req[q].fault = "insItems" /\ resp[q].code = 500
        /\ req[q].doc \in DOMAIN docs
        /\ items[req[q].doc] = << >>
        /\ docs[req[q].doc].total_progress = pre.docs[req[q].doc].total_progress
        /\ docs[req[q].doc].total_progress > 0

\* C31: no document ever has status in_review: no step of a create, update,
\* delete, submit, approve, reject, request-revision or signature upload
\* writes it.
C31_NeverInReview ==
    \A d \in DOMAIN docs : docs[d].status # "in_review"

\* C31 witness: a document has been submitted and approved, its status going
\* from submitted to approved with one approved record written
C31_Witness ==
    \E q \in Slots :
        /\ Alone(q) /\ Found(q) /\ Done(q) /\ req[q].op = "approve" /\ resp[q].code = 200
        /\ pre.docs[req[q].doc].status = "submitted"
        /\ docs[req[q].doc].status = "approved"
        /\ Len(approvals) = Len(pre.approvals) + 1

\* C32: with create and delete requests served one at a time within one
\* calendar month, no two documents of one type that exist together carry the
\* same number.
C32_NumbersDistinct ==
    \A d, e \in DOMAIN docs :
        (d # e /\ docs[d].type = docs[e].type) => docs[d].number # docs[e].number

\* C32 witness: of three documents of one type created one after the other,
\* the first was deleted before the third was created; the second and the
\* third exist together under one number
C32_Witness ==
    /\ nextId = 4 /\ DOMAIN docs = {2, 3}
    /\ docs[2].type = docs[3].type
    /\ docs[2].number = 2 /\ docs[3].number = 2
    /\ \A q \in Slots : req[q] = Idle

\* C33: in every reachable state, requests interleaving and store calls
\* failing at will, a document whose status is approved has at least one
\* approval record with action approved.
C33_ApprovedHasRecord ==
    \A d \in DOMAIN docs :
        docs[d].status = "approved" =>
            \E i \in 1..Len(approvals) :
                approvals[i].doc = d /\ approvals[i].action = "approved"

\* C33 witness: an approve request whose record was written and whose status
\* update failed, and a second approve that has just written the status
C33_Witness ==
    \E q \in Slots, d \in DOMAIN docs :
        /\ req[q].op = "approve" /\ req[q].doc = d /\ req[q].pc = "notify"
        /\ docs[d].status = "approved"
        /\ Len(approvals) = 2
        /\ \A i \in 1..Len(approvals) :
               approvals[i].doc = d /\ approvals[i].action = "approved"

\* C34: when an approve request has ended with an error after its
\* preconditions passed, the same reviewer's next approve of the document,
\* still submitted, is not refused as a duplicate approval.
C34_RetryNotRefused ==
    \A q \in Slots :
        (/\ Alone(q) /\ Found(q) /\ Done(q) /\ req[q].op = "approve"
         /\ pre.docs[req[q].doc].status \in ReviewableStatuses
         /\ Role(req[q].user) \in ReviewerRoles(req[q].t)
         /\ Cardinality(PriorApprovedRows(req[q].doc, req[q].user)) = 1)
            => resp[q].code # 400

\* C34 witness: the retry of a reviewer whose approval record is in the store
\* while the document is still submitted has been answered
C34_Witness ==
    \E q \in Slots :
        /\ Alone(q) /\ Found(q) /\ Done(q) /\ req[q].op = "approve"
        /\ pre.docs[req[q].doc].status = "submitted"
        /\ docs[req[q].doc].status = "submitted"
        /\ Cardinality(PriorApprovedRows(req[q].doc, req[q].user)) = 1
        /\ approvals = pre.approvals
        /\ resp[q].code = 400

\* C35: an update request that ends with an error, a store call of the item
\* replacement or of the document update having failed, leaves the document's
\* status and rejection_reason as they were, for BAPB and BAPP alike.
C35_FailedUpdateKeepsStatus ==
    \A q \in Slots :
        (/\ Alone(q) /\ Found(q) /\ Done(q) /\ req[q].op = "update"
         /\ resp[q].code = 500
         /\ req[q].doc \in DOMAIN docs)
            => /\ docs[req[q].doc].status = pre.docs[req[q].doc].status
               /\ docs[req[q].doc].rejection_reason = pre.docs[req[q].doc].rejection_reason

\* C35 witness: the update of a BAPB sent back for revision has failed in the
\* replacement of its items
C35_Witness ==
    \E q \in Slots :
        /\ Alone(q) /\ Found(q) /\ Done(q) /\ req[q].op = "update"
        /\ req[q].t = "bapb" /\ resp[q].code = 500
        /\ req[q].fault \in {"delItems", "insItems"}
        /\ pre.docs[req[q].doc].status = "revision_required"
        /\ pre.docs[req[q].doc].rejection_reason # None
        /\ docs[req[q].doc].status = "draft"
        /\ docs[req[q].doc].rejection_reason = None

\* document d is submitted and no submit of it is still being served
SubmitSucceeded(d) ==
    /\ d \in DOMAIN docs /\ docs[d].status = "submitted"
    /\ \A q \in Slots : ~(req[q].op = "submit" /\ req[q].doc = d /\ ~Done(q))

\* C36: once a submit has succeeded, a vendor update that started before it and
\* interleaves with it changes neither the line items nor the status of the
\* document: until a reviewer acts they stay as they were at submission.
C36_SubmittedStaysPut ==
    [][\A d \in DocIds :
          SubmitSucceeded(d) =>
              /\ d \in DOMAIN docs'
              /\ docs'[d].status = "submitted"
              /\ items'[d] = items[d]]_vars

\* C36 witness: the submit has been answered 200 and the document is submitted,
\* while the update that passed its status check before is between its delete
\* and its insert: the items the submit read are gone
C36_Witness ==
    \E d \in DOMAIN docs :
        /\ req["q2"].op = "submit" /\ req["q2"].doc = d /\ Done("q2")
        /\ resp["q2"].code = 200
        /\ docs[d].status = "submitted"
        /\ req["q1"].op = "update" /\ req["q1"].doc = d /\ req["q1"].pc = "insItems"
        /\ req["q2"].locItems # << >>
        /\ items[d] = << >>

\* payment logs of document d with status success
SuccessLogs(d) ==
    {i \in 1..Len(payment_logs) : payment_logs[i].doc = d /\ payment_logs[i].status = "success"}

\* C37: across any sequence of processBAPBPayment / processBAPPPayment calls, a
\* document has at most one payment log with status success.
C37_OneSuccessfulPayment ==
    \A d \in DocIds : Cardinality(SuccessLogs(d)) <= 1

\* C37 witness: a settlement called on a document that already had a successful
\* payment log has returned, and the document has two such logs
C37_Witness ==
    \E q \in Slots :
        /\ Alone(q) /\ Found(q) /\ Done(q) /\ req[q].op = "pay"
        /\ resp[q].code = 200 /\ req[q].gateway = "success"
        /\ \E i \in 1..Len(pre.payment_logs) :
               pre.payment_logs[i].doc = req[q].doc /\ pre.payment_logs[i].status = "success"
        /\ Len(payment_logs) = Len(pre.payment_logs) + 1
        /\ Cardinality(SuccessLogs(req[q].doc)) = 2

\* C38: a settlement returns its result (success = true) only when the gateway
\* said success; when the gateway said failed the caller receives a failure;
\* and when the document is missing or not approved the call throws without
\* having called the gateway or written a payment log.
C38_SuccessOnlyOnGatewaySuccess ==
    \A q \in Slots :
        (Alone(q) /\ Done(q) /\ req[q].op = "pay") =>
            /\ resp[q].code = 200 => req[q].gateway = "success"
            /\ req[q].gateway = "failed" => resp[q].code # 200
            /\ (~Found(q) \/ pre.docs[req[q].doc].status # "approved") =>
                   /\ resp[q].code = 500
                   /\ req[q].gateway = "none"
                   /\ payment_logs = pre.payment_logs

\* C38 witness: the gateway said failed, the attempt was logged as failed, and
\* the call returned its result
C38_Witness ==
    \E q \in Slots :
        /\ Alone(q) /\ Found(q) /\ Done(q) /\ req[q].op = "pay"
        /\ pre.docs[req[q].doc].status = "approved"
        /\ req[q].gateway = "failed" /\ req[q].fault = "none"
        /\ Len(payment_logs) = Len(pre.payment_logs) + 1
        /\ payment_logs[Len(payment_logs)].status = "failed"
        /\ resp[q].code = 200

\* C39: every role allowed to create a BAPB is also allowed, by the route's
\* gate and the controller's checks together, to update, delete and submit a
\* draft BAPB it owns: such an owner is never refused for its role.
C39_CreatorMayManage ==
    \A q \in Slots :
        (/\ Alone(q) /\ Found(q) /\ Done(q)
         /\ req[q].t = "bapb" /\ req[q].op \in {"update", "delete", "submit"}
         /\ Role(req[q].user) \in RouteRoles("bapb", "create")
         /\ pre.docs[req[q].doc].type = "bapb"
         /\ pre.docs[req[q].doc].vendor_id = req[q].user
         /\ pre.docs[req[q].doc].status = "draft")
            => resp[q].code # 403

\* C39 witness: the update of a draft BAPB by the admin who created it has been
\* refused with 403, the document left as it was
C39_Witness ==
    \E q \in Slots :
        /\ Alone(q) /\ Found(q) /\ Done(q)
        /\ req[q].t = "bapb" /\ req[q].op = "update"
        /\ Role(req[q].user) = "admin"
        /\ pre.docs[req[q].doc].type = "bapb"
        /\ pre.docs[req[q].doc].vendor_id = req[q].user
        /\ pre.docs[req[q].doc].status = "draft"
        /\ docs = pre.docs /\ items = pre.items
        /\ resp[q].code = 403

====
